---- MODULE Spec2Model ----
(***************************************************************************)
(* SecureGen: credential generation (services/api.ts), the strength        *)
(* estimator of the generator form and the history query pipeline of       *)
(* components/HistoryTable.tsx.                                             *)
(*                                                                         *)
(* Strings are sequences of one-character strings.  A Uint32 is a pair     *)
(* <<hi, lo>> of 16-bit halves, so that the 32-bit width is kept.          *)
(***************************************************************************)
EXTENDS Integers, Sequences, FiniteSets, TLC

VARIABLES
    pc,             \* position of the generator call under study
    config,         \* GenerateConfig: length and the three toggles
    outcome,        \* what the call returned or threw
    pattern,        \* argument of generateUsernameFromPattern
    result,         \* its local variable result
    upc,            \* its position: which loop or replace pass is running
    scan,           \* next index a global regex replace looks at
    records,        \* HistoryTable's records prop
    searchTerm,     \* HistoryTable state
    filterGroup,
    filterDateStart,
    filterDateEnd,
    sortConfig,
    now,            \* the clock, in hours since 2025-01-01T00:00Z
    tzOffset,       \* local time minus UTC, in hours
    locale,         \* the browser's default locale (toLocaleString)
    selectedIds,    \* HistoryTable state: the ticked rows, in ticking order
    viewMode,       \* HistoryTable state: 'list' or 'grouped'
    download,       \* the file the last export handed to the browser
    lastClick,      \* the last handler run, and the selection it found
    storedUsers,        \* localStorage securegen_users
    storedToken,        \* localStorage securegen_token
    storedCurrentUser,  \* localStorage securegen_current_user
    storedRecords,      \* localStorage securegen_records
    hasRandomUUID,  \* whether crypto.randomUUID exists in this browser
    uuidCount,      \* how many UUIDs crypto.randomUUID has handed out for records
    clock,          \* Date.now(), in tenths of a second
    call,           \* the last api call: its arguments and how it ended
    retired,        \* ids of the records removed so far
    createdBy,      \* who was logged in when each record was generated
    pending,        \* the api calls whose simulated delay is running
    isAuthenticated,    \* App state
    history,
    isLoadingHistory,
    isBulkGrouping,     \* HistoryTable state: the bulk dialog is open
    bulkGroupInput,
    isSaving,
    appEvent        \* the last handler of the app that finished, and what it found

genVars == <<pc, config, outcome>>
userVars == <<pattern, result, upc, scan>>
envVars == <<records, now, tzOffset>>
filterVars == <<searchTerm, filterGroup, filterDateStart, filterDateEnd>>
viewVars == <<envVars, filterVars, sortConfig>>
tableVars == <<locale, selectedIds, viewMode, download, lastClick>>
sessionVars == <<storedUsers, storedToken, storedCurrentUser>>
idVars == <<hasRandomUUID, uuidCount, clock>>
ghostVars == <<call, retired, createdBy>>
storeVars == <<sessionVars, storedRecords, idVars, ghostVars>>
bulkVars == <<isBulkGrouping, bulkGroupInput, isSaving>>
appVars == <<pending, isAuthenticated, history, isLoadingHistory, bulkVars, appEvent>>
vars == <<genVars, userVars, viewVars, tableVars, storeVars, appVars>>

(***************************************************************************)
(* Generic string helpers (String.prototype.includes and friends).         *)
(***************************************************************************)
SeqToSet(s) == {s[k] : k \in 1..Len(s)}

\* s.startsWith(t, at-1)
MatchesAt(s, t, at) ==
    /\ at >= 1
    /\ at + Len(t) - 1 <= Len(s)
    /\ \A k \in 1..Len(t) : s[at + k - 1] = t[k]

\* s.indexOf(t) + 1, or 0 when t does not occur in s
IndexOf(s, t) ==
    LET hits == {at \in 1..(Len(s) - Len(t) + 1) : MatchesAt(s, t, at)}
    IN  IF hits = {} THEN 0 ELSE CHOOSE at \in hits : \A o \in hits : at <= o

\* s.includes(t)
Includes(s, t) == IndexOf(s, t) # 0

(***************************************************************************)
(* generateRandomPassword                                                  *)
(***************************************************************************)
lowercase == <<"a","b","c","d","e","f","g","h","i","j","k","l","m",
               "n","o","p","q","r","s","t","u","v","w","x","y","z">>
uppercase == <<"A","B","C","D","E","F","G","H","I","J","K","L","M",
               "N","O","P","Q","R","S","T","U","V","W","X","Y","Z">>
numbers == <<"0","1","2","3","4","5","6","7","8","9">>
symbols == <<"!","@","#","$","%","^","&","*","(",")","_","+","-","=",
             "[","]","{","}","|",";",":",",",".","<",">","?">>

\* two and four decimal digits, zero-padded
IsDigit(c) == \E j \in 1..10 : numbers[j] = c
Pad2(n) == <<numbers[(n \div 10) + 1], numbers[(n % 10) + 1]>>
Pad4(n) == Pad2(n \div 100) \o Pad2(n % 100)

HalfWord == 256 * 256

\* v % n for the Uint32 v = hi * 2^16 + lo
U32Mod(v, n) == ((v[1] % n) * (HalfWord % n) + (v[2] % n)) % n

\* the charset with the digits appended whatever useNumbers says
CharsetIgnoringToggle(cfg) ==
    LET c0 == lowercase
        c1 == IF cfg.useUppercase THEN c0 \o uppercase ELSE c0
        c2 == c1 \o numbers
    IN  IF cfg.useSymbols THEN c2 \o symbols ELSE c2

\* lines 41-46: the candidate charset
Charset(cfg) ==
    LET c0 == lowercase
        c1 == IF cfg.useUppercase THEN c0 \o uppercase ELSE c0
        c2 == IF cfg.useNumbers THEN c1 \o numbers ELSE c1
        c3 == IF cfg.useSymbols THEN c2 \o symbols ELSE c2
    IN  IF Len(c3) = 0 THEN lowercase ELSE c3

\* the loop stopping one iteration early (i < config.length - 1)
PasswordLoopShort(cfg, array) ==
    LET charset == Charset(cfg)
    IN  [k \in 1..(cfg.length - 1) |-> charset[U32Mod(array[k], Len(charset)) + 1]]

\* lines 52-54: the loop over i < config.length (no iteration when length <= 0)
PasswordLoop(cfg, array) ==
    LET charset == Charset(cfg)
    IN  [k \in 1..cfg.length |-> charset[U32Mod(array[k], Len(charset)) + 1]]

\* new Uint32Array(n) throws a RangeError for a negative n
Uint32ArrayThrows(n) == n < 0

\* array is what crypto.getRandomValues wrote into the Uint32Array
generateRandomPassword(cfg, array) ==
    IF Uint32ArrayThrows(cfg.length)
    THEN [error |-> "RangeError", value |-> <<>>]
    ELSE [error |-> "none", value |-> PasswordLoop(cfg, array)]

(***************************************************************************)
(* getStrength (the strength meter of the generator form)                  *)
(***************************************************************************)
Min(a, b) == IF a < b THEN a ELSE b

\* lines 825-832: base length score and variety bonus
BaseScore(cfg) ==
    Min(cfg.length * 4, 50)
    + (IF cfg.useUppercase THEN 15 ELSE 0)
    + (IF cfg.useNumbers THEN 15 ELSE 0)
    + (IF cfg.useSymbols THEN 20 ELSE 0)

varietyCount(cfg) ==
    1 + (IF cfg.useUppercase THEN 1 ELSE 0)
      + (IF cfg.useNumbers THEN 1 ELSE 0)
      + (IF cfg.useSymbols THEN 1 ELSE 0)

\* line 835: cap for very short passwords
ShortCap(cfg, s) == IF cfg.length < 8 THEN Min(s, 20) ELSE s

\* the penalty as the else-branch of the short-length cap
VarietyPenaltyElse(cfg, s) ==
    IF cfg.length >= 8 /\ varietyCount(cfg) < 2 /\ cfg.length < 20 THEN s - 10 ELSE s

\* line 836: a second, independent if statement
VarietyPenalty(cfg, s) ==
    IF varietyCount(cfg) < 2 /\ cfg.length < 20 THEN s - 10 ELSE s

\* lines 838-839
ClampScore(s) == IF s < 0 THEN 0 ELSE IF s > 100 THEN 100 ELSE s

\* the bands with their boundary values in the lower band
StrengthLabelInclusive(s) ==
    IF s <= 40 THEN "Weak"
    ELSE IF s <= 70 THEN "Moderate"
    ELSE IF s <= 90 THEN "Strong"
    ELSE "Very Strong"

\* lines 846-866
StrengthLabel(s) ==
    IF s < 40 THEN "Weak"
    ELSE IF s < 70 THEN "Moderate"
    ELSE IF s < 90 THEN "Strong"
    ELSE "Very Strong"

getStrength(cfg) ==
    LET s == ClampScore(VarietyPenalty(cfg, ShortCap(cfg, BaseScore(cfg))))
    IN  [score |-> s, label |-> StrengthLabel(s)]

(***************************************************************************)
(* The generator calls, applied to every configuration.                    *)
(***************************************************************************)
\* the range slider of the generator form: min="4" max="64"
MinLength == 4
MaxLength == 64

\* how far outside the slider's range lengths are drawn
OutOfRange == 6

LengthInputs == (MinLength - OutOfRange)..(MaxLength + OutOfRange)

Configs ==
    [length : LengthInputs, useUppercase : BOOLEAN,
     useNumbers : BOOLEAN, useSymbols : BOOLEAN]

\* representative Uint32 values <<hi, lo>>: 0, 1, the class sizes and their
\* sums, 2^16, 2^31 and 2^32 - 1
U32Samples ==
    << <<0, 0>>, <<0, 1>>, <<0, 9>>, <<0, 10>>, <<0, 25>>, <<0, 26>>, <<0, 51>>,
       <<0, 52>>, <<0, 61>>, <<0, 62>>, <<0, 87>>, <<0, 88>>, <<1, 0>>,
       <<32768, 0>>, <<65535, 65535>> >>

\* strides with which crypto.getRandomValues' output walks through U32Samples
MaxStride == 2

\* the arrays crypto.getRandomValues may leave: n elements, each a Uint32
RandomArrays(n) ==
    {[k \in 1..n |-> U32Samples[((seed + (k - 1) * stride) % Len(U32Samples)) + 1]] :
        seed \in 0..(Len(U32Samples) - 1), stride \in 0..MaxStride}

NoOutcome == [error |-> "none", value |-> <<>>, score |-> 0, label |-> ""]

\* an optional string (string | undefined)
Absent == [some |-> FALSE, str |-> <<>>]
Some(str) == [some |-> TRUE, str |-> str]
\* JavaScript truthiness of an optional string
Truthy(o) == o.some /\ o.str # <<>>

ViewIdle ==
    /\ records = <<>> /\ now = 0 /\ tzOffset = 0
    /\ searchTerm = <<>> /\ filterGroup = <<>>
    /\ filterDateStart = <<>> /\ filterDateEnd = <<>>
    /\ sortConfig = [key |-> "created_at", direction |-> "desc"]
\* no file exported yet
NoDownload == [made |-> FALSE, filename |-> <<>>, content |-> <<>>]
\* the last handler run was not one that is followed up
NoClick == [what |-> "other", selected |-> <<>>]
TableIdle ==
    /\ locale = "en-US" /\ selectedIds = <<>> /\ viewMode = "list"
    /\ download = NoDownload /\ lastClick = NoClick
\* no api call made yet
NoId == [kind |-> "none", n |-> 0]
NoUpdates == [group |-> Absent, remark |-> Absent]
NoCall ==
    [op |-> "none", error |-> "none", id |-> NoId, ids |-> <<>>,
     updates |-> NoUpdates, returned |-> <<>>]
\* localStorage.getItem of a key that was never set, or was removed
NoItem == [some |-> FALSE, value |-> <<>>]
Item(v) == [some |-> TRUE, value |-> v]
StoreIdle ==
    /\ storedUsers = <<>> /\ storedToken = NoItem /\ storedCurrentUser = NoItem
    /\ storedRecords = <<>>
    /\ hasRandomUUID = TRUE /\ uuidCount = 0 /\ clock = 0
    /\ call = NoCall /\ retired = {} /\ createdBy = <<>>
\* App.tsx lines 10-16 and HistoryTable.tsx lines 39-42: the useState defaults
NoEvent ==
    [what |-> "none", ok |-> TRUE, fetch |-> "none", sent |-> <<>>,
     selection |-> <<>>, dialog |-> FALSE]
AppIdle ==
    /\ pending = <<>>
    /\ isAuthenticated = FALSE
    /\ history = <<>>
    /\ isLoadingHistory = TRUE
    /\ isBulkGrouping = FALSE
    /\ bulkGroupInput = <<>>
    /\ isSaving = FALSE
    /\ appEvent = NoEvent

GenIdle == pc = "idle" /\ config = [length |-> 0] /\ outcome = NoOutcome
UserIdle == pattern = Absent /\ result = <<>> /\ upc = "idle" /\ scan = 0

GenInit ==
    /\ pc = "ready"
    /\ config \in Configs
    /\ outcome = NoOutcome
    /\ UserIdle
    /\ ViewIdle
    /\ TableIdle
    /\ StoreIdle
    /\ AppIdle

CallGenerateRandomPassword ==
    /\ pc = "ready"
    /\ \E array \in RandomArrays(config.length) :
          LET r == generateRandomPassword(config, array)
          IN  outcome' = [NoOutcome EXCEPT !.error = r.error, !.value = r.value]
    /\ pc' = "password"
    /\ UNCHANGED config

CallGetStrength ==
    /\ pc = "ready"
    /\ LET r == getStrength(config)
       IN  outcome' = [NoOutcome EXCEPT !.score = r.score, !.label = r.label]
    /\ pc' = "strength"
    /\ UNCHANGED config

GenNext ==
    \/ CallGenerateRandomPassword /\ UNCHANGED <<userVars, viewVars, tableVars, storeVars, appVars>>
    \/ CallGetStrength /\ UNCHANGED <<userVars, viewVars, tableVars, storeVars, appVars>>

SpecGenerator == GenInit /\ [][GenNext]_vars

(***************************************************************************)
(* generateUsernameFromPattern                                             *)
(***************************************************************************)
ADJECTIVES ==
    << <<"S","w","i","f","t">>, <<"S","i","l","e","n","t">>, <<"H","a","p","p","y">>,
       <<"B","r","a","v","e">>, <<"C","a","l","m">>, <<"W","i","t","t","y">>,
       <<"F","a","n","c","y">>, <<"B","o","l","d">>,
       <<"C","r","i","m","s","o","n">>, <<"N","e","o","n">>, <<"B","l","u","e">>,
       <<"R","e","d">>, <<"G","r","e","e","n">> >>
NOUNS ==
    << <<"F","o","x">>, <<"E","a","g","l","e">>, <<"P","a","n","d","a">>,
       <<"T","i","g","e","r">>, <<"L","i","o","n">>, <<"H","a","w","k">>,
       <<"W","o","l","f">>, <<"B","e","a","r">>, <<"F","a","l","c","o","n">>,
       <<"B","a","d","g","e","r">>, <<"S","h","a","r","k">>,
       <<"W","h","a","l","e">>, <<"C","a","t">> >>

AdjectiveToken == <<"{","a","d","j","e","c","t","i","v","e","}">>
NounToken == <<"{","n","o","u","n","}">>
NumberToken == <<"{","n","u","m","b","e","r","}">>
DefaultPattern == AdjectiveToken \o NounToken \o NumberToken

\* Math.random() returns k / RandRes for a k in RandNums: 0 <= k / RandRes < 1
RandRes == 1000
RandNums == {k \in 0..(RandRes - 1) : k < 2 \/ k % 77 = 0 \/ k = RandRes - 1}

\* Math.floor(Math.random() * n) for Math.random() = k / RandRes
FloorTimes(k, n) == (k * n) \div RandRes

\* Number.prototype.toString for a natural number: decimal, no padding
RECURSIVE NumToString(_)
NumToString(n) ==
    IF n < 10 THEN <<numbers[n + 1]>>
    ELSE NumToString(n \div 10) \o <<numbers[(n % 10) + 1]>>

getRandomAdjective(k) == ADJECTIVES[FloorTimes(k, Len(ADJECTIVES)) + 1]
getRandomNoun(k) == NOUNS[FloorTimes(k, Len(NOUNS)) + 1]
getRandomDigit(k) == NumToString(FloorTimes(k, 10))
\* a letter of the upper-case alphabet
getRandomLetterUpper(k) == <<uppercase[FloorTimes(k, 26) + 1]>>
getRandomLetter(k) == <<lowercase[FloorTimes(k, 26) + 1]>>
\* the number padded with zeros to three digits
getRandomNumberPadded(k) ==
    LET n == FloorTimes(k, 1000)
    IN  <<numbers[(n \div 100) + 1]>> \o Pad2(n % 100)

\* line 81: Math.floor(Math.random() * 1000).toString()
getRandomNumber(k) == NumToString(FloorTimes(k, 1000))

\* s.replace(t, by) for a string t that occurs in s: the first occurrence only
ReplaceFirst(s, t, by) ==
    LET at == IndexOf(s, t)
    IN  SubSeq(s, 1, at - 1) \o by \o SubSeq(s, at + Len(t), Len(s))

\* position of the first c in s at or after from, or 0
NextChar(s, c, from) ==
    LET hits == {at \in from..Len(s) : s[at] = c}
    IN  IF hits = {} THEN 0 ELSE CHOOSE at \in hits : \A o \in hits : at <= o

\* the patterns generateUsernameFromPattern is called with
PatternInputs ==
    { Absent,
      Some(<<>>),
      Some(DefaultPattern),
      Some(<<"u","s","e","r","_","#","#","#","#">>),
      Some(<<"?","_","#","?">>),
      Some(NounToken \o NounToken),
      Some(<<"?","#">> \o AdjectiveToken),
      Some(NumberToken \o <<"#","?","-">> \o NumberToken),
      Some(<<"{","a","d","j">> \o NounToken \o <<"e","c","t","i","v","e","}">>),
      Some(AdjectiveToken \o <<".">> \o AdjectiveToken \o <<"?">>) }

UserInit ==
    /\ pattern \in PatternInputs
    /\ result = <<>>
    /\ upc = "entry"
    /\ scan = 0
    /\ GenIdle
    /\ ViewIdle
    /\ TableIdle
    /\ StoreIdle
    /\ AppIdle

\* lines 68-71: the default for a falsy pattern, then result = pattern
EnterPattern ==
    /\ upc = "entry"
    /\ result' = IF Truthy(pattern) THEN pattern.str ELSE DefaultPattern
    /\ upc' = "adjective"
    /\ UNCHANGED <<pattern, scan>>

\* lines 74-76: one iteration of the {adjective} loop
ExpandAdjective ==
    /\ upc = "adjective"
    /\ Includes(result, AdjectiveToken)
    /\ \E k \in RandNums :
          result' = ReplaceFirst(result, AdjectiveToken, getRandomAdjective(k))
    /\ UNCHANGED <<pattern, upc, scan>>

\* leaving the loop after one replacement at most
AdjectivesDoneAfterOne ==
    /\ upc = "adjective"
    /\ upc' = "noun"
    /\ UNCHANGED <<pattern, result, scan>>

AdjectivesDone ==
    /\ upc = "adjective"
    /\ ~Includes(result, AdjectiveToken)
    /\ upc' = "noun"
    /\ UNCHANGED <<pattern, result, scan>>

\* lines 77-79: one iteration of the {noun} loop
ExpandNoun ==
    /\ upc = "noun"
    /\ Includes(result, NounToken)
    /\ \E k \in RandNums :
          result' = ReplaceFirst(result, NounToken, getRandomNoun(k))
    /\ UNCHANGED <<pattern, upc, scan>>

NounsDone ==
    /\ upc = "noun"
    /\ ~Includes(result, NounToken)
    /\ upc' = "number"
    /\ UNCHANGED <<pattern, result, scan>>

\* lines 80-82: one iteration of the {number} loop
ExpandNumber ==
    /\ upc = "number"
    /\ Includes(result, NumberToken)
    /\ \E k \in RandNums :
          result' = ReplaceFirst(result, NumberToken, getRandomNumber(k))
    /\ UNCHANGED <<pattern, upc, scan>>

NumbersDone ==
    /\ upc = "number"
    /\ ~Includes(result, NumberToken)
    /\ upc' = "hash"
    /\ scan' = 1
    /\ UNCHANGED <<pattern, result>>

\* line 86: .replace(/#/g, ...) reaches its next match and calls getRandomDigit
ReplaceHash ==
    /\ upc = "hash"
    /\ NextChar(result, "#", scan) # 0
    /\ LET at == NextChar(result, "#", scan)
       IN  /\ \E k \in RandNums :
                result' = SubSeq(result, 1, at - 1) \o getRandomDigit(k)
                            \o SubSeq(result, at + 1, Len(result))
           /\ scan' = at + 1
    /\ UNCHANGED <<pattern, upc>>

HashesDone ==
    /\ upc = "hash"
    /\ NextChar(result, "#", scan) = 0
    /\ upc' = "question"
    /\ scan' = 1
    /\ UNCHANGED <<pattern, result>>

\* line 87: .replace(/\?/g, ...) reaches its next match and calls getRandomLetter
ReplaceQuestion ==
    /\ upc = "question"
    /\ NextChar(result, "?", scan) # 0
    /\ LET at == NextChar(result, "?", scan)
       IN  /\ \E k \in RandNums :
                result' = SubSeq(result, 1, at - 1) \o getRandomLetter(k)
                            \o SubSeq(result, at + 1, Len(result))
           /\ scan' = at + 1
    /\ UNCHANGED <<pattern, upc>>

\* the function returns
QuestionsDone ==
    /\ upc = "question"
    /\ NextChar(result, "?", scan) = 0
    /\ upc' = "done"
    /\ UNCHANGED <<pattern, result, scan>>

UserNext ==
    \/ EnterPattern /\ UNCHANGED <<genVars, viewVars, tableVars, storeVars, appVars>>
    \/ ExpandAdjective /\ UNCHANGED <<genVars, viewVars, tableVars, storeVars, appVars>>
    \/ AdjectivesDone /\ UNCHANGED <<genVars, viewVars, tableVars, storeVars, appVars>>
    \/ ExpandNoun /\ UNCHANGED <<genVars, viewVars, tableVars, storeVars, appVars>>
    \/ NounsDone /\ UNCHANGED <<genVars, viewVars, tableVars, storeVars, appVars>>
    \/ ExpandNumber /\ UNCHANGED <<genVars, viewVars, tableVars, storeVars, appVars>>
    \/ NumbersDone /\ UNCHANGED <<genVars, viewVars, tableVars, storeVars, appVars>>
    \/ ReplaceHash /\ UNCHANGED <<genVars, viewVars, tableVars, storeVars, appVars>>
    \/ HashesDone /\ UNCHANGED <<genVars, viewVars, tableVars, storeVars, appVars>>
    \/ ReplaceQuestion /\ UNCHANGED <<genVars, viewVars, tableVars, storeVars, appVars>>
    \/ QuestionsDone /\ UNCHANGED <<genVars, viewVars, tableVars, storeVars, appVars>>

SpecUsername == UserInit /\ [][UserNext]_vars

(***************************************************************************)
(* HistoryTable: the filter, sort and date-preset logic                    *)
(***************************************************************************)
\* String.prototype.toLowerCase on one character
LowerChar(c) ==
    IF \E j \in 1..26 : uppercase[j] = c
    THEN lowercase[CHOOSE j \in 1..26 : uppercase[j] = c]
    ELSE c

toLowerCase(s) == [k \in 1..Len(s) |-> LowerChar(s[k])]

\* UTF-16 code units of the characters of a date string, in increasing order
DateChars == <<"-">> \o numbers
CodeUnit(c) == CHOOSE j \in 1..Len(DateChars) : DateChars[j] = c

\* a < b for JavaScript strings: by code unit, a proper prefix first
RECURSIVE StrLess(_, _)
StrLess(a, b) ==
    IF b = <<>> THEN FALSE
    ELSE IF a = <<>> THEN TRUE
    ELSE IF a[1] # b[1] THEN CodeUnit(a[1]) < CodeUnit(b[1])
    ELSE StrLess(Tail(a), Tail(b))

StrLeq(a, b) == a = b \/ StrLess(a, b)

HoursPerDay == 12 + 12

\* the UTC calendar day (days since 2025-01-01) of an instant
UtcDay(t) == t \div HoursPerDay
\* the calendar day the user's clock shows for an instant
LocalDay(t) == (t + tzOffset) \div HoursPerDay

\* <<year, month, day>> of a day number, November 2024 to January 2025
CivilFromDay(d) ==
    IF d >= 0 THEN <<2025, 1, d + 1>>
    ELSE IF d >= -31 THEN <<2024, 12, d + 32>>
    ELSE <<2024, 11, d + 62>>

\* YYYY-MM-DD of a day number
DateString(d) ==
    LET ymd == CivilFromDay(d)
    IN  Pad4(ymd[1]) \o <<"-">> \o Pad2(ymd[2]) \o <<"-">> \o Pad2(ymd[3])

\* new Date(x).toISOString().split('T')[0]
ISODate(t) == DateString(UtcDay(t))

\* the search looking at the username and the remark only
MatchesSearchTwoFields(r, term) ==
    LET searchLower == toLowerCase(term)
    IN  \/ term = <<>>
        \/ Includes(toLowerCase(r.username), searchLower)
        \/ (Truthy(r.remark) /\ Includes(toLowerCase(r.remark.str), searchLower))

\* lines 134-140
MatchesSearch(r, term) ==
    LET searchLower == toLowerCase(term)
    IN  \/ term = <<>>
        \/ Includes(toLowerCase(r.username), searchLower)
        \/ Includes(toLowerCase(r.id), searchLower)
        \/ (Truthy(r.remark) /\ Includes(toLowerCase(r.remark.str), searchLower))
        \/ (Truthy(r.group) /\ Includes(toLowerCase(r.group.str), searchLower))

\* the group filter comparing without regard to case
MatchesGroupAnyCase(r, fg) ==
    fg = <<>> \/ (r.group.some /\ toLowerCase(r.group.str) = toLowerCase(fg))

\* line 143
MatchesGroup(r, fg) == fg = <<>> \/ (r.group.some /\ r.group.str = fg)

\* lines 146-157
MatchesDate(r, ds, de) ==
    IF ds # <<>> \/ de # <<>>
    THEN LET recordDateStr == ISODate(r.created_at)
         IN  /\ (ds # <<>>) => StrLeq(ds, recordDateStr)
             /\ (de # <<>>) => StrLeq(recordDateStr, de)
    ELSE TRUE

\* line 159
Keeps(r, term, fg, ds, de) ==
    MatchesSearch(r, term) /\ MatchesGroup(r, fg) /\ MatchesDate(r, ds, de)

\* lines 132-160
FilterRecords(recs, term, fg, ds, de) ==
    SelectSeq(recs, LAMBDA r : Keeps(r, term, fg, ds, de))

\* collation order of the characters used: white space, punctuation, digits,
\* letters
CollationChars == <<"\n", "_", "-", ",", "\"">> \o numbers \o lowercase
\* the position in that order of every character, whatever its case
WeightTable ==
    [c \in SeqToSet(CollationChars) \cup SeqToSet(uppercase) |->
        CHOOSE j \in 1..Len(CollationChars) : CollationChars[j] = LowerChar(c)]
PrimaryWeight(c) == WeightTable[c]
\* lowercase sorts before uppercase when nothing else differs
CaseWeight(c) == IF LowerChar(c) = c THEN 0 ELSE 1

\* -1, 0 or 1: the order of two sequences of weights, a proper prefix first
RECURSIVE CompareWeights(_, _)
CompareWeights(a, b) ==
    IF a = <<>> /\ b = <<>> THEN 0
    ELSE IF a = <<>> THEN -1
    ELSE IF b = <<>> THEN 1
    ELSE IF a[1] < b[1] THEN -1
    ELSE IF a[1] > b[1] THEN 1
    ELSE CompareWeights(Tail(a), Tail(b))

\* String.prototype.localeCompare: letters first, case as the tie-break
localeCompare(a, b) ==
    LET primary == CompareWeights([k \in 1..Len(a) |-> PrimaryWeight(a[k])],
                                  [k \in 1..Len(b) |-> PrimaryWeight(b[k])])
    IN  IF primary # 0 THEN primary
        ELSE CompareWeights([k \in 1..Len(a) |-> CaseWeight(a[k])],
                            [k \in 1..Len(b) |-> CaseWeight(b[k])])

\* a[sortConfig.key] || ''
SortValue(r, key) ==
    IF key = "username" THEN r.username
    ELSE IF key = "group" THEN (IF Truthy(r.group) THEN r.group.str ELSE <<>>)
    ELSE (IF Truthy(r.remark) THEN r.remark.str ELSE <<>>)

\* lines 163-176: the comparator handed to Array.prototype.sort
Comparator(a, b, sc) ==
    IF sc.key = "created_at"
    THEN IF sc.direction = "asc" THEN a.created_at - b.created_at
         ELSE b.created_at - a.created_at
    ELSE IF sc.direction = "asc"
         THEN localeCompare(SortValue(a, sc.key), SortValue(b, sc.key))
         ELSE localeCompare(SortValue(b, sc.key), SortValue(a, sc.key))

\* an insertion that also moves x in front of elements that compare equal
RECURSIVE SortInsertUnstable(_, _, _)
SortInsertUnstable(sorted, x, sc) ==
    IF sorted = <<>> THEN <<x>>
    ELSE IF Comparator(sorted[Len(sorted)], x, sc) >= 0
         THEN SortInsertUnstable(SubSeq(sorted, 1, Len(sorted) - 1), x, sc)
                \o <<sorted[Len(sorted)]>>
         ELSE Append(sorted, x)

\* Array.prototype.sort is stable: x moves in front of the elements that
\* compare greater, and of no others
RECURSIVE SortInsert(_, _, _)
SortInsert(sorted, x, sc) ==
    IF sorted = <<>> THEN <<x>>
    ELSE IF Comparator(sorted[Len(sorted)], x, sc) > 0
         THEN SortInsert(SubSeq(sorted, 1, Len(sorted) - 1), x, sc)
                \o <<sorted[Len(sorted)]>>
         ELSE Append(sorted, x)

RECURSIVE SortRecords(_, _)
SortRecords(data, sc) ==
    IF data = <<>> THEN <<>>
    ELSE SortInsert(SortRecords(SubSeq(data, 1, Len(data) - 1), sc),
                    data[Len(data)], sc)

\* lines 131-179, as a function of everything the memo depends on
ProcessRecords(recs, term, fg, ds, de, sc) ==
    SortRecords(FilterRecords(recs, term, fg, ds, de), sc)

processedRecords ==
    ProcessRecords(records, searchTerm, filterGroup, filterDateStart,
                   filterDateEnd, sortConfig)

\* lines 123-129 (the order of the options plays no role here)
uniqueGroups == {records[k].group.str : k \in {j \in 1..Len(records) : Truthy(records[j].group)}}

(***************************************************************************)
(* The records shown and what the user can type                            *)
(***************************************************************************)
Str_bob == <<"b","o","b">>
Str_Work == <<"W","o","r","k">>

RecordPool ==
    << [id |-> <<"a","1">>, username |-> Str_bob,
        group |-> Some(Str_Work), remark |-> Some(<<>>), created_at |-> -5],
       [id |-> <<"b","2">>, username |-> <<"B","o","b">>,
        group |-> Some(<<"P","e","r","s","o","n","a","l">>),
        remark |-> Some(<<"w","o","r","k",",","h","o","m","e">>), created_at |-> -10],
       [id |-> <<"c","3">>, username |-> Str_bob,
        group |-> Absent, remark |-> Absent, created_at |-> -20],
       [id |-> <<"d","4">>, username |-> <<"a","l","i","c","e">>,
        group |-> Some(<<"w","o","r","k">>), remark |-> Some(<<"B","O","B">>),
        created_at |-> -28] >>

\* most records a history holds
MaxRecords == 3

\* App hands over the history sorted by creation time, newest first: the pool
\* is in that order, and a history is a subsequence of it
RecordLists ==
    {SelectSeq(RecordPool, LAMBDA r : r.id \in ids) :
        ids \in {x \in SUBSET {RecordPool[k].id : k \in 1..Len(RecordPool)} :
                    Cardinality(x) <= MaxRecords}}

SearchInputs == {<<>>, <<"B","O">>, <<"w","o","r","k">>, <<"3">>}
\* the days a date input is set to by hand: 2024-12-30 to 2025-01-01
DayInputs == (-2)..0
DateInputs == {<<>>} \cup {DateString(d) : d \in DayInputs}
TzOffsets == {-8, 0, 9}
SortKeys == {"created_at", "username", "group", "remark"}

ViewInit ==
    /\ records \in RecordLists
    /\ now = -3
    /\ tzOffset \in TzOffsets
    /\ searchTerm = <<>>
    /\ filterGroup = <<>>
    /\ filterDateStart = <<>>
    /\ filterDateEnd = <<>>
    /\ sortConfig = [key |-> "created_at", direction |-> "desc"]
    /\ GenIdle
    /\ UserIdle
    /\ TableIdle
    /\ StoreIdle
    /\ AppIdle

\* line 580, and line 271 for the empty term
SetSearchTerm ==
    /\ \E t \in SearchInputs : searchTerm' = t
    /\ UNCHANGED <<envVars, filterGroup, filterDateStart, filterDateEnd, sortConfig>>

\* line 665, and line 278 for the empty filter
SetFilterGroup ==
    /\ \E g \in uniqueGroups \cup {<<>>} : filterGroup' = g
    /\ UNCHANGED <<envVars, searchTerm, filterDateStart, filterDateEnd, sortConfig>>

\* line 624
SetFilterDateStart ==
    /\ \E d \in DateInputs : filterDateStart' = d
    /\ UNCHANGED <<envVars, searchTerm, filterGroup, filterDateEnd, sortConfig>>

\* line 633
SetFilterDateEnd ==
    /\ \E d \in DateInputs : filterDateEnd' = d
    /\ UNCHANGED <<envVars, searchTerm, filterGroup, filterDateStart, sortConfig>>

\* line 286
ClearDates ==
    /\ filterDateStart' = <<>>
    /\ filterDateEnd' = <<>>
    /\ UNCHANGED <<envVars, searchTerm, filterGroup, sortConfig>>

\* line 291
ClearAll ==
    /\ searchTerm' = <<>>
    /\ filterGroup' = <<>>
    /\ filterDateStart' = <<>>
    /\ filterDateEnd' = <<>>
    /\ UNCHANGED <<envVars, sortConfig>>

\* the day of the month the user's clock shows
LocalDate(t) == CivilFromDay(LocalDay(t))[3]

\* lines 100-117: start and end after the switch; setDate moves a Date by
\* whole days of local time
PresetStart(type) ==
    IF type = "yesterday" THEN now - HoursPerDay
    ELSE IF type = "last7" THEN now - 7 * HoursPerDay
    ELSE IF type = "last30" THEN now - 30 * HoursPerDay
    ELSE IF type = "thisMonth" THEN now - (LocalDate(now) - 1) * HoursPerDay
    ELSE now

PresetEnd(type) == IF type = "yesterday" THEN now - HoursPerDay ELSE now

\* the presets the filter panel offers (lines 641-644)
PresetTypes == {"today", "yesterday", "last7", "thisMonth"}

\* lines 96-121
applyDatePreset ==
    /\ \E type \in PresetTypes :
          /\ filterDateStart' = ISODate(PresetStart(type))
          /\ filterDateEnd' = ISODate(PresetEnd(type))
    /\ UNCHANGED <<envVars, searchTerm, filterGroup, sortConfig>>

\* lines 223-228
handleSort ==
    /\ \E key \in SortKeys :
          sortConfig' =
              [key |-> key,
               direction |-> IF sortConfig.key = key /\ sortConfig.direction = "asc"
                             THEN "desc" ELSE "asc"]
    /\ UNCHANGED <<envVars, filterVars>>

Next ==
    \/ SetSearchTerm /\ UNCHANGED <<genVars, userVars, tableVars, storeVars, appVars>>
    \/ SetFilterGroup /\ UNCHANGED <<genVars, userVars, tableVars, storeVars, appVars>>
    \/ SetFilterDateStart /\ UNCHANGED <<genVars, userVars, tableVars, storeVars, appVars>>
    \/ SetFilterDateEnd /\ UNCHANGED <<genVars, userVars, tableVars, storeVars, appVars>>
    \/ ClearDates /\ UNCHANGED <<genVars, userVars, tableVars, storeVars, appVars>>
    \/ ClearAll /\ UNCHANGED <<genVars, userVars, tableVars, storeVars, appVars>>
    \/ applyDatePreset /\ UNCHANGED <<genVars, userVars, tableVars, storeVars, appVars>>
    \/ handleSort /\ UNCHANGED <<genVars, userVars, tableVars, storeVars, appVars>>

Spec == ViewInit /\ [][Next]_vars


(***************************************************************************)
(* HistoryTable: the grouped view                                          *)
(***************************************************************************)
Uncategorized == <<"U","n","c","a","t","e","g","o","r","i","z","e","d">>

\* line 184: record.group || 'Uncategorized'
GroupName(r) == IF Truthy(r.group) THEN r.group.str ELSE Uncategorized

\* names an object literal inherits from Object.prototype: groups[name] is
\* truthy for them before anything was stored under the name
InheritedKeys ==
    { <<"c","o","n","s","t","r","u","c","t","o","r">>,
      <<"t","o","S","t","r","i","n","g">>,
      <<"v","a","l","u","e","O","f">>,
      <<"_","_","p","r","o","t","o","_","_">> }

\* lines 185-186 on an object kept as its properties in creation order
AddToGroups(groups, record) ==
    LET name == GroupName(record)
        at == {k \in 1..Len(groups) : groups[k].name = name}
    IN  IF at = {}
        THEN Append(groups, [name |-> name, records |-> <<record>>])
        ELSE [groups EXCEPT ![CHOOSE k \in at : TRUE].records = Append(@, record)]

\* lines 183-187: the forEach over the view
RECURSIVE GroupRecords(_)
GroupRecords(view) ==
    IF view = <<>> THEN <<>>
    ELSE AddToGroups(GroupRecords(SubSeq(view, 1, Len(view) - 1)), view[Len(view)])

\* lines 181-189: the memo; storing under an inherited name calls push on
\* something that is not an array
groupedRecords ==
    LET view == processedRecords
    IN  IF \E k \in 1..Len(view) : GroupName(view[k]) \in InheritedKeys
        THEN [error |-> "TypeError", groups |-> <<>>]
        ELSE [error |-> "none", groups |-> GroupRecords(view)]

\* a property name that is an array index: a canonical decimal numeral
\* below 2^32 - 1
MaxIndexString == <<"4","2","9","4","9","6","7","2","9","4">>
IsArrayIndex(name) ==
    /\ name # <<>>
    /\ \A k \in 1..Len(name) : IsDigit(name[k])
    /\ Len(name) > 1 => name[1] # "0"
    /\ \/ Len(name) < Len(MaxIndexString)
       \/ Len(name) = Len(MaxIndexString) /\ StrLeq(name, MaxIndexString)

\* the numeric order of two array indices
IndexLess(a, b) == Len(a) < Len(b) \/ (Len(a) = Len(b) /\ StrLess(a, b))

\* the entries whose names are array indices, in ascending numeric order
RECURSIVE IndexEntries(_)
IndexEntries(groups) ==
    IF groups = <<>> THEN <<>>
    ELSE LET rest == IndexEntries(SubSeq(groups, 1, Len(groups) - 1))
             g == groups[Len(groups)]
         IN  IF ~IsArrayIndex(g.name) THEN rest
             ELSE SelectSeq(rest, LAMBDA e : IndexLess(e.name, g.name))
                  \o <<g>>
                  \o SelectSeq(rest, LAMBDA e : ~IndexLess(e.name, g.name))

\* line 721, Object.entries: array indices first, in ascending numeric
\* order, then the other names in creation order
ObjectEntries(groups) ==
    IndexEntries(groups) \o SelectSeq(groups, LAMBDA g : ~IsArrayIndex(g.name))

\* lines 721-748: the groups in the order the grouped view renders them
GroupedView == ObjectEntries(groupedRecords.groups)

\* lines 524 and 531
setViewMode ==
    /\ \E mode \in {"list", "grouped"} : viewMode' = mode
    /\ UNCHANGED <<viewVars, locale, selectedIds, download, lastClick>>

(***************************************************************************)
(* HistoryTable: the selection                                             *)
(***************************************************************************)
\* line 232
visibleIds ==
    LET view == processedRecords
    IN  [k \in 1..Len(view) |-> view[k].id]

\* Array.from(new Set(list)): the first occurrence of every element
RECURSIVE ArrayFromSet(_)
ArrayFromSet(list) ==
    IF list = <<>> THEN <<>>
    ELSE LET front == ArrayFromSet(SubSeq(list, 1, Len(list) - 1))
             x == list[Len(list)]
         IN  IF x \in SeqToSet(front) THEN front ELSE Append(front, x)

\* line 238
SelectAllUnion(selected, visible) == ArrayFromSet(selected \o visible)

\* line 236 emptying the selection instead
DeselectEverything(selected, visible) == <<>>
\* line 236
DeselectVisible(selected, visible) ==
    LET shown == SeqToSet(visible)
    IN  SelectSeq(selected, LAMBDA id : id \notin shown)

\* lines 231-241
toggleSelectAll ==
    /\ LET visible == visibleIds
           allVisibleSelected ==
               /\ Len(visible) > 0
               /\ SeqToSet(visible) \subseteq SeqToSet(selectedIds)
       IN  selectedIds' = IF allVisibleSelected
                          THEN DeselectVisible(selectedIds, visible)
                          ELSE SelectAllUnion(selectedIds, visible)
    /\ lastClick' = [what |-> "toggleSelectAll", selected |-> selectedIds]
    /\ UNCHANGED <<viewVars, locale, viewMode, download>>

\* line 247 without the test of line 244
ToggleOneAppending(selected, id) == Append(selected, id)
\* lines 244-248
ToggleOne(selected, id) ==
    IF id \in SeqToSet(selected)
    THEN SelectSeq(selected, LAMBDA sid : sid # id)
    ELSE Append(selected, id)

\* lines 243-249, from the checkbox of a row on screen (line 336)
toggleSelectOne ==
    /\ LET view == processedRecords
       IN  \E k \in 1..Len(view) : selectedIds' = ToggleOne(selectedIds, view[k].id)
    /\ UNCHANGED <<viewVars, locale, viewMode, download>>

\* line 553: the Cancel button of the bulk bar
CancelSelection ==
    /\ Len(selectedIds) > 0
    /\ selectedIds' = <<>>
    /\ UNCHANGED <<viewVars, locale, viewMode, download>>

(***************************************************************************)
(* HistoryTable: the CSV export                                            *)
(***************************************************************************)
Quote == "\""
Comma == ","
Newline == "\n"

\* str.replace(/"/g, '""')
RECURSIVE DoubleQuotes(_)
DoubleQuotes(str) ==
    IF str = <<>> THEN <<>>
    ELSE (IF str[1] = Quote THEN <<Quote, Quote>> ELSE <<str[1]>>)
         \o DoubleQuotes(Tail(str))

\* lines 196-202 quoting only for a comma or a quote
escapeForgettingNewline(str) ==
    IF Comma \in SeqToSet(str) \/ Quote \in SeqToSet(str)
    THEN <<Quote>> \o DoubleQuotes(str) \o <<Quote>>
    ELSE str
\* lines 196-202
escape(str) ==
    IF Comma \in SeqToSet(str) \/ Quote \in SeqToSet(str) \/ Newline \in SeqToSet(str)
    THEN <<Quote>> \o DoubleQuotes(str) \o <<Quote>>
    ELSE str

\* Array.prototype.join
RECURSIVE Join(_, _)
Join(parts, sep) ==
    IF parts = <<>> THEN <<>>
    ELSE IF Len(parts) = 1 THEN parts[1]
    ELSE parts[1] \o sep \o Join(Tail(parts), sep)

Locales == {"en-US", "sv-SE"}

\* Date.prototype.toLocaleString in the browser's locale and time zone, for
\* an instant on the hour
toLocaleString(t) ==
    LET local == t + tzOffset
        ymd == CivilFromDay(local \div HoursPerDay)
        hour == local % HoursPerDay
        h12 == IF hour % 12 = 0 THEN 12 ELSE hour % 12
    IN  IF locale = "en-US"
        THEN NumToString(ymd[2]) \o <<"/">> \o NumToString(ymd[3]) \o <<"/">>
             \o NumToString(ymd[1]) \o <<",", " ">> \o NumToString(h12)
             \o <<":","0","0",":","0","0"," ">>
             \o (IF hour < 12 THEN <<"A","M">> ELSE <<"P","M">>)
        ELSE DateString(local \div HoursPerDay) \o <<" ">> \o Pad2(hour)
             \o <<":","0","0",":","0","0">>

\* line 192
headers == << <<"U","s","e","r","n","a","m","e">>, <<"G","r","o","u","p">>, <<"R","e","m","a","r","k">>, <<"C","r","e","a","t","e","d"," ","A","t">> >>

\* lines 203-208
CsvRow(r) ==
    Join(<< escape(r.username),
            escape(IF Truthy(r.group) THEN r.group.str ELSE <<>>),
            escape(IF Truthy(r.remark) THEN r.remark.str ELSE <<>>),
            escape(toLocaleString(r.created_at)) >>, <<Comma>>)

\* lines 193-210
csvContent ==
    LET view == processedRecords
    IN  Join(<<Join(headers, <<Comma>>)>> \o [k \in 1..Len(view) |-> CsvRow(view[k])],
             <<Newline>>)

\* line 216
ExportFileName == <<"s","e","c","u","r","e","g","e","n","_","e","x","p","o","r","t","_">> \o ISODate(now) \o <<".","c","s","v">>

\* lines 191-221
handleExportCSV ==
    /\ download' = [made |-> TRUE, filename |-> ExportFileName, content |-> csvContent]
    /\ lastClick' = [what |-> "handleExportCSV", selected |-> selectedIds]
    /\ UNCHANGED <<viewVars, locale, selectedIds, viewMode>>

(***************************************************************************)
(* The histories the table is shown with                                   *)
(***************************************************************************)
TablePool ==
    << [id |-> <<"a","1">>, username |-> Str_bob,
        group |-> Some(Str_Work), remark |-> Some(<<"a",",","b">>), created_at |-> -5],
       [id |-> <<"b","2">>, username |-> <<"a","m","y">>,
        group |-> Some(<<"1","0">>), remark |-> Some(<<"\"","h","i","\"">>), created_at |-> -10],
       [id |-> <<"c","3">>, username |-> Str_bob,
        group |-> Absent, remark |-> Absent, created_at |-> -20],
       [id |-> <<"d","4">>, username |-> <<"c","a","t">>,
        group |-> Some(<<"9">>), remark |-> Some(<<"x","\n","y">>), created_at |-> -28],
       [id |-> <<"e","5">>, username |-> <<"d","a","n">>,
        group |-> Some(<<"c","o","n","s","t","r","u","c","t","o","r">>), remark |-> Some(<<>>), created_at |-> -30] >>

\* most rows a history of the table specifications holds
MaxRows == 2

\* histories as App hands them over: newest first
TableLists ==
    {SelectSeq(TablePool, LAMBDA r : r.id \in ids) :
        ids \in {x \in SUBSET {TablePool[k].id : k \in 1..Len(TablePool)} :
                    Cardinality(x) <= MaxRows}}

\* what both table specifications start from
TableStart ==
    /\ records \in TableLists
    /\ now = -3
    /\ searchTerm = <<>>
    /\ filterGroup = <<>>
    /\ filterDateStart = <<>>
    /\ filterDateEnd = <<>>
    /\ sortConfig = [key |-> "created_at", direction |-> "desc"]
    /\ selectedIds = <<>>
    /\ viewMode = "list"
    /\ download = NoDownload
    /\ lastClick = NoClick

ExportInit ==
    /\ TableStart
    /\ tzOffset \in {-8, 9}
    /\ locale \in Locales
    /\ GenIdle
    /\ UserIdle
    /\ StoreIdle
    /\ AppIdle

\* a handler that is not followed up
OtherClick ==
    /\ lastClick' = NoClick
    /\ UNCHANGED <<genVars, userVars, storeVars, appVars>>

ExportNext ==
    \/ SetSearchTerm /\ OtherClick /\ UNCHANGED <<locale, selectedIds, viewMode, download>>
    \/ SetFilterGroup /\ OtherClick /\ UNCHANGED <<locale, selectedIds, viewMode, download>>
    \/ handleSort /\ OtherClick /\ UNCHANGED <<locale, selectedIds, viewMode, download>>
    \/ handleExportCSV /\ UNCHANGED <<genVars, userVars, storeVars, appVars>>

SpecExport == ExportInit /\ [][ExportNext]_vars

TableInit ==
    /\ TableStart
    /\ tzOffset = 0
    /\ locale = "en-US"
    /\ GenIdle
    /\ UserIdle
    /\ StoreIdle
    /\ AppIdle

TableNext ==
    \/ SetSearchTerm /\ OtherClick /\ UNCHANGED <<locale, selectedIds, viewMode, download>>
    \/ SetFilterGroup /\ OtherClick /\ UNCHANGED <<locale, selectedIds, viewMode, download>>
    \/ handleSort /\ OtherClick /\ UNCHANGED <<locale, selectedIds, viewMode, download>>
    \/ toggleSelectAll /\ UNCHANGED <<genVars, userVars, storeVars, appVars>>
    \/ toggleSelectOne /\ OtherClick
    \/ CancelSelection /\ OtherClick

SpecTable == TableInit /\ [][TableNext]_vars

GroupedNext ==
    \/ SetSearchTerm /\ UNCHANGED <<genVars, userVars, tableVars, storeVars, appVars>>
    \/ SetFilterGroup /\ UNCHANGED <<genVars, userVars, tableVars, storeVars, appVars>>
    \/ handleSort /\ UNCHANGED <<genVars, userVars, tableVars, storeVars, appVars>>
    \/ setViewMode /\ UNCHANGED <<genVars, userVars, storeVars, appVars>>

SpecGrouped == TableInit /\ [][GroupedNext]_vars

(***************************************************************************)
(* services/api.ts: the session and the record store of the mock backend   *)
(***************************************************************************)
\* line 103
AdminId == [kind |-> "default-admin-uuid", n |-> 0]
\* crypto.randomUUID(): the n-th UUID drawn for a user or for a record; no
\* two draws are equal
randomUUID(for, n) == [kind |-> for, n |-> n]
\* Date.now().toString()
DateNowString(t) == [kind |-> "Date.now", n |-> t]

Str_admin == <<"a","d","m","i","n">>
Str_pw == <<"p","w">>
\* line 103
adminUser == [id |-> AdminId, username |-> Str_admin, password |-> Str_admin]

\* users.find(u => u.username === username): its position, or 0
FindByName(users, username) ==
    LET hits == {k \in 1..Len(users) : users[k].username = username}
    IN  IF hits = {} THEN 0 ELSE CHOOSE k \in hits : \A o \in hits : k <= o

\* line 110: users.find by username and password
FindByCredentials(users, username, password) ==
    LET hits == {k \in 1..Len(users) :
                    users[k].username = username /\ users[k].password = password}
    IN  IF hits = {} THEN 0 ELSE CHOOSE k \in hits : \A o \in hits : k <= o

\* lines 185-188
getCurrentUser == storedCurrentUser

\* what a call leaves alone besides what it names
Ended(op, error) == [NoCall EXCEPT !.op = op, !.error = error]

\* the mock backend waits this long, in tenths of a second, before it saves
GenerateDelay == 6

\* the name and password typed into the sign-in form
LoginInputs ==
    { [username |-> Str_admin, password |-> Str_admin],
      [username |-> Str_bob, password |-> Str_pw] }
RegisterInputs == { [username |-> Str_bob, password |-> Str_pw] }

\* lines 115-116 forgetting the current user
SignInTokenOnly(user) ==
    /\ storedToken' = Item([uid |-> user.id])
    /\ UNCHANGED storedCurrentUser
\* lines 113-116 and 162-165: the token and the user kept for the session
\* (of the token, the user id; its time stamp is left out)
SignIn(user) ==
    /\ storedToken' = Item([uid |-> user.id])
    /\ storedCurrentUser' = Item([id |-> user.id, username |-> user.username])

\* lines 101-108: the default admin is added when no user is named admin
SeedAdmin(users) ==
    IF FindByName(users, Str_admin) = 0 THEN Append(users, adminUser) ELSE users

\* lines 96-120 for one name and password
loginWith(cred) ==
    /\ LET users == SeedAdmin(storedUsers)
           at == FindByCredentials(users, cred.username, cred.password)
       IN  /\ storedUsers' = users
           /\ IF at # 0
              THEN SignIn(users[at]) /\ call' = Ended("login", "none")
              ELSE /\ call' = Ended("login", "Invalid credentials")
                   /\ UNCHANGED <<storedToken, storedCurrentUser>>
    /\ UNCHANGED <<storedRecords, idVars, retired, createdBy>>

\* lines 96-120
login == \E cred \in LoginInputs : loginWith(cred)

\* lines 148-167 for one name and password; crypto.randomUUID is called
\* without checking that it exists
registerWith(cred) ==
    /\ IF FindByName(storedUsers, cred.username) # 0
       THEN /\ call' = Ended("register", "Username already exists")
            /\ UNCHANGED sessionVars
       ELSE IF ~hasRandomUUID
       THEN /\ call' = Ended("register", "TypeError")
            /\ UNCHANGED sessionVars
       ELSE LET newUser == [id |-> randomUUID("user", Len(storedUsers) + 1),
                            username |-> cred.username,
                            password |-> cred.password]
            IN  /\ storedUsers' = Append(storedUsers, newUser)
                /\ SignIn(newUser)
                /\ call' = Ended("register", "none")
    /\ UNCHANGED <<storedRecords, idVars, retired, createdBy>>

\* lines 148-167
register == \E cred \in RegisterInputs : registerWith(cred)

\* lines 179-183
logout ==
    /\ storedToken' = NoItem
    /\ storedCurrentUser' = NoItem
    /\ call' = Ended("logout", "none")
    /\ UNCHANGED <<storedUsers, storedRecords, idVars, retired, createdBy>>

\* lines 74-82: one while loop, every draw of Math.random() giving k / RandRes
RECURSIVE ReplaceWhileIncluded(_, _, _)
ReplaceWhileIncluded(str, token, word) ==
    IF Includes(str, token)
    THEN ReplaceWhileIncluded(ReplaceFirst(str, token, word), token, word)
    ELSE str

\* str.replace(/c/g, () => by)
RECURSIVE ReplaceEvery(_, _, _)
ReplaceEvery(str, c, by) ==
    IF str = <<>> THEN <<>>
    ELSE (IF str[1] = c THEN by ELSE <<str[1]>>) \o ReplaceEvery(Tail(str), c, by)

\* lines 67-88 as one call
generateUsernameFromPattern(p, k) ==
    LET start == IF p = <<>> THEN DefaultPattern ELSE p
        words == ReplaceWhileIncluded(
                     ReplaceWhileIncluded(
                         ReplaceWhileIncluded(start, AdjectiveToken, getRandomAdjective(k)),
                         NounToken, getRandomNoun(k)),
                     NumberToken, getRandomNumber(k))
    IN  ReplaceEvery(ReplaceEvery(words, "#", getRandomDigit(k)), "?", getRandomLetter(k))

\* String.prototype.trim() leaving nothing
IsBlank(str) == \A k \in 1..Len(str) : str[k] = " "

\* lines 201-206
UsernameFor(cfg, k) ==
    IF cfg.usernameType = "manual" /\ Truthy(cfg.username) /\ ~IsBlank(cfg.username.str)
    THEN cfg.username.str
    ELSE generateUsernameFromPattern(
             IF Truthy(cfg.usernamePattern) THEN cfg.usernamePattern.str ELSE DefaultPattern, k)

\* line 209 numbering the records by the size of the store
NewRecordIdByCount == randomUUID("record", Len(storedRecords) + 1)
\* line 209
NewRecordId == IF hasRandomUUID THEN randomUUID("record", uuidCount + 1) ELSE DateNowString(clock + GenerateDelay)

\* lines 208-217; JSON.stringify leaves out a remark or group that is undefined
NewRecord(cfg, owner, password, k) ==
    [id |-> NewRecordId,
     user_id |-> owner,
     username |-> UsernameFor(cfg, k),
     password_plain |-> password,
     created_at |-> clock + GenerateDelay,
     remark |-> cfg.remark,
     group |-> cfg.group]

\* line 194 letting everyone through
UnauthorizedNever(user) == FALSE
\* line 194: !currentUser
Unauthorized(user) == ~user.some
\* currentUser.id
OwnerId(user) == IF user.some THEN user.value.id ELSE NoId

\* line 220: [newRecord, ...existing]
PrependRecord(existing, newRecord) == <<newRecord>> \o existing

\* most records generated in one run
MaxGenerates == 2

\* the generator settings the form is submitted with
StoreConfigs ==
    { [length |-> 8, useUppercase |-> TRUE, useNumbers |-> TRUE, useSymbols |-> FALSE,
       usernameType |-> "pattern", username |-> Some(<<" ">>),
       usernamePattern |-> Some(<<"u","#">>), remark |-> Absent, group |-> Some(Str_Work)],
      [length |-> -1, useUppercase |-> TRUE, useNumbers |-> TRUE, useSymbols |-> FALSE,
       usernameType |-> "manual", username |-> Some(<<"n","e","o">>),
       usernamePattern |-> Absent, remark |-> Absent, group |-> Absent] }

\* what crypto.getRandomValues and Math.random give during a save
StoreArrays(n) == {[k \in 1..n |-> U32Samples[((k - 1) % Len(U32Samples)) + 1]]}
StoreRandNums == {k \in RandNums : k = 539}

\* lines 192-222
generateAndSave ==
    /\ \E cfg \in StoreConfigs, k \in StoreRandNums :
       \E array \in StoreArrays(cfg.length) :
          LET currentUser == getCurrentUser
              made == generateRandomPassword(cfg, array)
          IN  IF Unauthorized(currentUser)
              THEN /\ call' = Ended("generateAndSave", "Unauthorized")
                   /\ UNCHANGED <<storedRecords, idVars, createdBy>>
              ELSE IF made.error # "none"
              THEN /\ call' = Ended("generateAndSave", made.error)
                   /\ UNCHANGED <<storedRecords, idVars, createdBy>>
              ELSE LET newRecord == NewRecord(cfg, OwnerId(currentUser), made.value, k)
                   IN  /\ clock < GenerateDelay * MaxGenerates
                       /\ storedRecords' = PrependRecord(storedRecords, newRecord)
                       /\ call' = [Ended("generateAndSave", "none")
                                      EXCEPT !.returned = <<newRecord>>]
                       /\ createdBy' = Append(createdBy, [id |-> newRecord.id,
                                                          by |-> OwnerId(currentUser)])
                       /\ clock' = clock + GenerateDelay
                       /\ uuidCount' = IF hasRandomUUID THEN uuidCount + 1 ELSE uuidCount
                       /\ UNCHANGED hasRandomUUID
    /\ UNCHANGED <<sessionVars, retired>>

\* line 253 without the filter
ReturnEverything(data, uid) == data
\* line 253
FilterByUser(data, uid) == SelectSeq(data, LAMBDA r : r.user_id = uid)

\* lines 245-253
getHistory ==
    /\ LET currentUser == getCurrentUser
       IN  IF Unauthorized(currentUser)
           THEN call' = Ended("getHistory", "Unauthorized")
           ELSE call' = [Ended("getHistory", "none")
                            EXCEPT !.returned = FilterByUser(storedRecords, OwnerId(currentUser))]
    /\ UNCHANGED <<sessionVars, storedRecords, idVars, retired, createdBy>>

\* a spread that also takes the group text for the username
SpreadUpdatesOverName(r, updates) ==
    [r EXCEPT !.group = IF updates.group.some THEN updates.group ELSE @,
              !.remark = IF updates.remark.some THEN updates.remark ELSE @,
              !.username = IF updates.group.some THEN updates.group.str ELSE @]
\* { ...r, ...updates }: a key of updates replaces the record's
SpreadUpdates(r, updates) ==
    [r EXCEPT !.group = IF updates.group.some THEN updates.group ELSE @,
              !.remark = IF updates.remark.some THEN updates.remark ELSE @]

\* lines 273-275
MapUpdate(existing, id, updates) ==
    [k \in 1..Len(existing) |->
        IF existing[k].id = id THEN SpreadUpdates(existing[k], updates) ELSE existing[k]]

\* lines 290-292 touching every record
MapUpdatesEverywhere(existing, ids, updates) ==
    [k \in 1..Len(existing) |-> SpreadUpdates(existing[k], updates)]
\* lines 290-292
MapUpdates(existing, ids, updates) ==
    [k \in 1..Len(existing) |->
        IF existing[k].id \in SeqToSet(ids)
        THEN SpreadUpdates(existing[k], updates) ELSE existing[k]]

\* line 307
FilterOutId(existing, id) == SelectSeq(existing, LAMBDA r : r.id # id)

\* line 321 looking at the first id only
FilterOutFirstId(existing, ids) ==
    SelectSeq(existing, LAMBDA r : ids = <<>> \/ r.id # ids[1])
\* line 321
FilterOutIds(existing, ids) == SelectSeq(existing, LAMBDA r : r.id \notin SeqToSet(ids))

\* line 340 keeping nothing
KeepNothing(existing, uid) == <<>>
\* line 340
KeepOthers(existing, uid) == SelectSeq(existing, LAMBDA r : r.user_id # uid)

\* the ids of the records of a list
IdsOf(recs) == {recs[k].id : k \in 1..Len(recs)}

\* an id no record ever had
MissingId == randomUUID("record", 0)
\* the ids a caller passes: those in the store and one that is not
IdInputs == IdsOf(storedRecords) \cup {MissingId}
\* the id lists a caller passes: up to two of them, the stored ones in the
\* order of the store
IdListInputs ==
    {SelectSeq([k \in 1..Len(storedRecords) |-> storedRecords[k].id] \o <<MissingId>>,
               LAMBDA id : id \in chosen) :
        chosen \in {x \in SUBSET IdInputs : Cardinality(x) <= 2}}

Str_Home == <<"H","o","m","e">>
\* the edit form sends group and remark; a caller may send either alone
UpdateInputs ==
    { [group |-> Some(Str_Home), remark |-> Absent],
      [group |-> Some(Str_Home), remark |-> Some(<<"n","o","t","e">>)] }
BatchUpdateInputs == { [group |-> Some(Str_Home), remark |-> Absent] }

\* the bookkeeping of a call that writes securegen_records
Wrote(op, updated) ==
    /\ storedRecords' = updated
    /\ retired' = retired \cup (IdsOf(storedRecords) \ IdsOf(updated))
    /\ UNCHANGED <<sessionVars, idVars, createdBy>>

\* lines 269-276
updateRecord ==
    \E id \in IdInputs, updates \in UpdateInputs :
        /\ Wrote("updateRecord", MapUpdate(storedRecords, id, updates))
        /\ call' = [Ended("updateRecord", "none") EXCEPT !.id = id, !.updates = updates]

\* lines 286-293
updateRecords ==
    \E ids \in IdListInputs, updates \in BatchUpdateInputs :
        /\ Wrote("updateRecords", MapUpdates(storedRecords, ids, updates))
        /\ call' = [Ended("updateRecords", "none") EXCEPT !.ids = ids, !.updates = updates]

\* lines 303-308
deleteRecord ==
    \E id \in IdInputs :
        /\ Wrote("deleteRecord", FilterOutId(storedRecords, id))
        /\ call' = [Ended("deleteRecord", "none") EXCEPT !.id = id]

\* lines 317-322
deleteRecords ==
    \E ids \in IdListInputs :
        /\ Wrote("deleteRecords", FilterOutIds(storedRecords, ids))
        /\ call' = [Ended("deleteRecords", "none") EXCEPT !.ids = ids]

\* lines 332-341
clearHistory ==
    LET currentUser == getCurrentUser
    IN  IF ~currentUser.some
        THEN /\ call' = Ended("clearHistory", "none")
             /\ UNCHANGED <<sessionVars, storedRecords, idVars, retired, createdBy>>
        ELSE /\ Wrote("clearHistory", KeepOthers(storedRecords, OwnerId(currentUser)))
             /\ call' = Ended("clearHistory", "none")

StoreInit ==
    /\ storedUsers = <<>>
    /\ storedToken = NoItem
    /\ storedCurrentUser = NoItem
    /\ storedRecords = <<>>
    /\ hasRandomUUID \in BOOLEAN
    /\ uuidCount = 0
    /\ clock = 0
    /\ call = NoCall
    /\ retired = {}
    /\ createdBy = <<>>
    /\ GenIdle
    /\ UserIdle
    /\ ViewIdle
    /\ TableIdle
    /\ AppIdle

StoreNext ==
    \/ login /\ UNCHANGED <<genVars, userVars, viewVars, tableVars, appVars>>
    \/ register /\ UNCHANGED <<genVars, userVars, viewVars, tableVars, appVars>>
    \/ logout /\ UNCHANGED <<genVars, userVars, viewVars, tableVars, appVars>>
    \/ generateAndSave /\ UNCHANGED <<genVars, userVars, viewVars, tableVars, appVars>>
    \/ getHistory /\ UNCHANGED <<genVars, userVars, viewVars, tableVars, appVars>>
    \/ updateRecord /\ UNCHANGED <<genVars, userVars, viewVars, tableVars, appVars>>
    \/ updateRecords /\ UNCHANGED <<genVars, userVars, viewVars, tableVars, appVars>>
    \/ deleteRecord /\ UNCHANGED <<genVars, userVars, viewVars, tableVars, appVars>>
    \/ deleteRecords /\ UNCHANGED <<genVars, userVars, viewVars, tableVars, appVars>>
    \/ clearHistory /\ UNCHANGED <<genVars, userVars, viewVars, tableVars, appVars>>

SpecStore == StoreInit /\ [][StoreNext]_vars

(***************************************************************************)
(* Calls whose simulated delays overlap.  A call is issued, its timer      *)
(* runs, and the code after the await runs when the timer fires.           *)
(***************************************************************************)
\* the setTimeout of each mock call, in tenths of a second (lines 197, 250,
\* 271, 288, 305, 319)
Delay(op) ==
    CASE op = "generateAndSave" -> GenerateDelay
      [] op = "getHistory" -> 4
      [] op \in {"updateRecord", "deleteRecord"} -> 3
      [] op \in {"updateRecords", "deleteRecords"} -> 5

\* most calls in flight together, and how long a run is watched
MaxPending == 2
MaxTicks == 7

\* the one setting of the generator form that is used here and the password
\* it gives
SavedConfig == CHOOSE cfg \in StoreConfigs : cfg.length > 0
SavedPassword ==
    generateRandomPassword(SavedConfig, CHOOSE a \in StoreArrays(SavedConfig.length) : TRUE).value

\* lines 208-217 at the time t the timer fires
NewRecordAt(owner, t) ==
    [NewRecord(SavedConfig, owner, SavedPassword, CHOOSE k \in StoreRandNums : TRUE)
        EXCEPT !.id = IF hasRandomUUID THEN @ ELSE DateNowString(t),
               !.created_at = t]

\* the n-th record admin saved in an earlier visit
SavedRecord(n) ==
    [NewRecordAt(AdminId, GenerateDelay * n) EXCEPT !.id = randomUUID("record", n)]

\* a call in flight: what was passed, who was logged in when it was issued
\* (lines 193, 246), when its timer fires, and the records that were stored
\* when it was issued
Issued(op, id, ids, updates) ==
    [op |-> op, id |-> id, ids |-> ids, updates |-> updates,
     user |-> getCurrentUser, due |-> clock + Delay(op), seen |-> storedRecords]

\* the call is put in flight; nothing is read or written before the await
IssueCall(op, id, ids, updates) ==
    /\ Len(pending) < MaxPending
    /\ pending' = Append(pending, Issued(op, id, ids, updates))
    /\ UNCHANGED <<storeVars, isAuthenticated, history, isLoadingHistory, bulkVars, appEvent>>

\* the ids a caller of an overlapping call passes: the oldest record for a
\* single call, the two newest for a batch
OldestId == storedRecords[Len(storedRecords)].id
NewestIds == <<storedRecords[1].id, storedRecords[2].id>>

IssueGenerate ==
    /\ ~Unauthorized(getCurrentUser)
    /\ IssueCall("generateAndSave", NoId, <<>>, NoUpdates)
IssueUpdateRecord ==
    /\ storedRecords # <<>>
    /\ IssueCall("updateRecord", OldestId, <<>>, [group |-> Some(Str_Home), remark |-> Absent])
IssueUpdateRecords ==
    /\ Len(storedRecords) >= 2
    /\ \E updates \in BatchUpdateInputs : IssueCall("updateRecords", NoId, NewestIds, updates)
IssueDeleteRecord ==
    /\ storedRecords # <<>>
    /\ IssueCall("deleteRecord", OldestId, <<>>, NoUpdates)
IssueDeleteRecords ==
    /\ Len(storedRecords) >= 2
    /\ IssueCall("deleteRecords", NoId, NewestIds, NoUpdates)

\* time passes while a timer runs and none is due
Tick ==
    /\ pending # <<>>
    /\ clock < GenerateDelay * 2 + MaxTicks
    /\ \A k \in 1..Len(pending) : pending[k].due > clock
    /\ clock' = clock + 1
    /\ UNCHANGED <<sessionVars, storedRecords, hasRandomUUID, uuidCount, ghostVars, appVars>>

\* the timer that fires next: the earliest due, the first issued among equals
NextDue ==
    CHOOSE k \in 1..Len(pending) :
        \A j \in 1..Len(pending) :
            pending[k].due < pending[j].due \/ (pending[k].due = pending[j].due /\ k <= j)

WithoutCall(k) == SubSeq(pending, 1, k - 1) \o SubSeq(pending, k + 1, Len(pending))

\* the records a call rewrites, taken when it was issued
ReadBeforeAwait(p) == p.seen
\* lines 219, 272, 289, 306, 320: getItem runs after the await
ReadRecords(p) == storedRecords

\* lines 199-222, 272-276, 289-293, 306-308, 320-322: the code after the
\* await, which runs without interruption
CompleteCall ==
    /\ pending # <<>>
    /\ pending[NextDue].due <= clock
    /\ LET p == pending[NextDue]
           existing == ReadRecords(p)
           newRecord == NewRecordAt(OwnerId(p.user), clock)
           updated ==
               CASE p.op = "generateAndSave" -> PrependRecord(existing, newRecord)
                 [] p.op = "updateRecord" -> MapUpdate(existing, p.id, p.updates)
                 [] p.op = "updateRecords" -> MapUpdates(existing, p.ids, p.updates)
                 [] p.op = "deleteRecord" -> FilterOutId(existing, p.id)
                 [] p.op = "deleteRecords" -> FilterOutIds(existing, p.ids)
       IN  /\ storedRecords' = updated
           /\ retired' = retired \cup (IdsOf(storedRecords) \ IdsOf(updated))
           /\ createdBy' = IF p.op = "generateAndSave"
                           THEN Append(createdBy, [id |-> newRecord.id, by |-> OwnerId(p.user)])
                           ELSE createdBy
           /\ uuidCount' = IF p.op = "generateAndSave" /\ hasRandomUUID
                           THEN uuidCount + 1 ELSE uuidCount
           /\ call' = [Ended(p.op, "none") EXCEPT !.id = p.id, !.ids = p.ids,
                           !.updates = p.updates,
                           !.returned = IF p.op = "generateAndSave" THEN <<newRecord>> ELSE <<>>]
           /\ pending' = WithoutCall(NextDue)
    /\ UNCHANGED <<sessionVars, hasRandomUUID, clock>>
    /\ UNCHANGED <<isAuthenticated, history, isLoadingHistory, bulkVars, appEvent>>

\* admin is logged in and has saved two records before
OverlapInit ==
    /\ storedUsers = <<adminUser>>
    /\ storedToken = Item([uid |-> AdminId])
    /\ storedCurrentUser = Item([id |-> AdminId, username |-> Str_admin])
    /\ hasRandomUUID = TRUE
    /\ uuidCount = 2
    /\ clock = GenerateDelay * 2
    /\ storedRecords = <<SavedRecord(2), SavedRecord(1)>>
    /\ call = NoCall
    /\ retired = {}
    /\ createdBy = <<[id |-> SavedRecord(1).id, by |-> AdminId],
                     [id |-> SavedRecord(2).id, by |-> AdminId]>>
    /\ GenIdle
    /\ UserIdle
    /\ ViewIdle
    /\ TableIdle
    /\ AppIdle

OverlapNext ==
    \/ IssueGenerate /\ UNCHANGED <<genVars, userVars, viewVars, tableVars>>
    \/ IssueUpdateRecord /\ UNCHANGED <<genVars, userVars, viewVars, tableVars>>
    \/ IssueUpdateRecords /\ UNCHANGED <<genVars, userVars, viewVars, tableVars>>
    \/ IssueDeleteRecord /\ UNCHANGED <<genVars, userVars, viewVars, tableVars>>
    \/ IssueDeleteRecords /\ UNCHANGED <<genVars, userVars, viewVars, tableVars>>
    \/ Tick /\ UNCHANGED <<genVars, userVars, viewVars, tableVars>>
    \/ CompleteCall /\ UNCHANGED <<genVars, userVars, viewVars, tableVars>>

SpecOverlap == OverlapInit /\ [][OverlapNext]_vars

(***************************************************************************)
(* The application: App.tsx keeps the session flag and the history, the    *)
(* table's bulk dialog saves a group and asks for a refresh.               *)
(***************************************************************************)
\* a handler the user starts is watched only early enough in the run
InWatch == Len(pending) < MaxPending /\ clock < GenerateDelay * 2 + MaxTicks

\* App.tsx line 34: records.sort by created_at, newest first; equal times
\* keep their order
RECURSIVE SortNewestFirst(_)
SortNewestFirst(recs) ==
    IF recs = <<>> THEN <<>>
    ELSE LET rest == SortNewestFirst(Tail(recs))
             r == Head(recs)
             ahead == SelectSeq(rest, LAMBDA o : o.created_at > r.created_at)
         IN  ahead \o <<r>> \o SubSeq(rest, Len(ahead) + 1, Len(rest))

\* App.tsx lines 36-40 emptying the list
fetchHistoryCatchClearing ==
    /\ isLoadingHistory' = FALSE
    /\ history' = <<>>
\* App.tsx lines 36-40: catch logs, finally clears the loading flag
fetchHistoryCatch ==
    /\ isLoadingHistory' = FALSE
    /\ UNCHANGED history

\* what a call of fetchHistory comes to: "none" when it returns at line 29,
\* "failed" when api.getHistory throws at api.ts line 247, else "started"
FetchOutcome(authenticated) ==
    IF ~authenticated THEN "none"
    ELSE IF Unauthorized(getCurrentUser) THEN "failed"
    ELSE "started"

\* App.tsx lines 28-32 with the other calls in flight being rest
fetchHistory(authenticated, rest) ==
    CASE FetchOutcome(authenticated) = "none" ->
            /\ pending' = rest
            /\ UNCHANGED <<history, isLoadingHistory>>
      [] FetchOutcome(authenticated) = "failed" ->
            /\ pending' = rest
            /\ fetchHistoryCatch
      [] FetchOutcome(authenticated) = "started" ->
            /\ pending' = Append(rest, Issued("getHistory", NoId, <<>>, NoUpdates))
            /\ isLoadingHistory' = TRUE
            /\ UNCHANGED history

\* App.tsx lines 18-26 and 43-47: the effects of the first render
SessionCheck ==
    /\ appEvent.what = "none"
    /\ isAuthenticated' = getCurrentUser.some
    /\ fetchHistory(getCurrentUser.some, pending)
    /\ appEvent' = [NoEvent EXCEPT !.what = "mount",
                                   !.fetch = FetchOutcome(getCurrentUser.some)]
    /\ UNCHANGED <<storeVars, selectedIds, bulkVars>>

\* AuthPage.tsx lines 16-38, then App.tsx lines 49-53 and 43-47
AuthSubmit ==
    /\ appEvent.what # "none"
    /\ ~isAuthenticated
    /\ pending = <<>>
    /\ clock < GenerateDelay * 2 + MaxTicks
    /\ \E cred \in {[username |-> Str_admin, password |-> pw] : pw \in {Str_admin, Str_pw}} :
          /\ loginWith(cred)
          /\ LET ok == FindByCredentials(SeedAdmin(storedUsers),
                                         cred.username, cred.password) # 0
             IN  /\ isAuthenticated' = ok
                 /\ IF ok
                    THEN /\ pending' = <<[Issued("getHistory", NoId, <<>>, NoUpdates)
                                             EXCEPT !.user = storedCurrentUser']>>
                         /\ isLoadingHistory' = TRUE
                         /\ UNCHANGED history
                    ELSE UNCHANGED <<pending, history, isLoadingHistory>>
                 /\ appEvent' = [NoEvent EXCEPT !.what = "handleSubmit", !.ok = ok,
                                    !.fetch = IF ok THEN "started" ELSE "none"]
    /\ UNCHANGED <<selectedIds, bulkVars>>

\* the call whose timer fires next is a call of op
NextIs(op) ==
    /\ pending # <<>>
    /\ pending[NextDue].op = op
    /\ pending[NextDue].due <= clock

\* App.tsx lines 32-35 and 38-40, api.ts lines 251-253
fetchHistoryEnd ==
    /\ NextIs("getHistory")
    /\ LET p == pending[NextDue]
           got == FilterByUser(storedRecords, OwnerId(p.user))
       IN  /\ history' = SortNewestFirst(got)
           /\ call' = [Ended("getHistory", "none") EXCEPT !.returned = got]
    /\ isLoadingHistory' = FALSE
    /\ pending' = WithoutCall(NextDue)
    /\ appEvent' = [NoEvent EXCEPT !.what = "fetchHistory", !.fetch = "ended"]
    /\ UNCHANGED <<sessionVars, storedRecords, idVars, retired, createdBy>>
    /\ UNCHANGED <<isAuthenticated, selectedIds, bulkVars>>

\* HistoryTable.tsx lines 243-249 for a row of the history shown
SelectHistoryRow ==
    /\ isAuthenticated
    /\ ~isBulkGrouping
    /\ \E id \in IdsOf(history) :
          selectedIds' = IF id \in SeqToSet(selectedIds)
                         THEN SelectSeq(selectedIds, LAMBDA sid : sid # id)
                         ELSE Append(selectedIds, id)
    /\ UNCHANGED <<storeVars, appVars>>

\* HistoryTable.tsx lines 543 and 561
OpenBulkDialog ==
    /\ isAuthenticated
    /\ selectedIds # <<>>
    /\ ~isBulkGrouping
    /\ isBulkGrouping' = TRUE
    /\ UNCHANGED <<storeVars, selectedIds, pending, isAuthenticated, history,
                   isLoadingHistory, bulkGroupInput, isSaving, appEvent>>

\* HistoryTable.tsx line 482
SetBulkGroupInput ==
    /\ isBulkGrouping
    /\ bulkGroupInput' = Str_Home
    /\ bulkGroupInput # Str_Home
    /\ UNCHANGED <<storeVars, selectedIds, pending, isAuthenticated, history,
                   isLoadingHistory, isBulkGrouping, isSaving, appEvent>>

\* HistoryTable.tsx line 496
CancelBulkDialog ==
    /\ isBulkGrouping
    /\ isBulkGrouping' = FALSE
    /\ bulkGroupInput' = <<>>
    /\ UNCHANGED <<storeVars, selectedIds, pending, isAuthenticated, history,
                   isLoadingHistory, isSaving, appEvent>>

\* HistoryTable.tsx lines 55-58: up to the await
handleBulkGroupSave ==
    /\ isBulkGrouping
    /\ ~isSaving
    /\ InWatch
    /\ isSaving' = TRUE
    /\ pending' = Append(pending, Issued("updateRecords", NoId, selectedIds,
                                         [group |-> Some(bulkGroupInput), remark |-> Absent]))
    /\ UNCHANGED <<storeVars, selectedIds, isAuthenticated, history,
                   isLoadingHistory, isBulkGrouping, bulkGroupInput, appEvent>>

\* HistoryTable.tsx lines 63-68 also dropping the selection
BulkSaveFailedClearing ==
    /\ isSaving' = FALSE
    /\ selectedIds' = <<>>
    /\ UNCHANGED <<isBulkGrouping, bulkGroupInput>>
\* HistoryTable.tsx lines 63-68: catch alerts, finally clears the saving flag
BulkSaveFailed ==
    /\ isSaving' = FALSE
    /\ UNCHANGED <<selectedIds, isBulkGrouping, bulkGroupInput>>

\* HistoryTable.tsx lines 59-62 and 67
BulkSaveDone ==
    /\ isBulkGrouping' = FALSE
    /\ selectedIds' = <<>>
    /\ bulkGroupInput' = <<>>
    /\ isSaving' = FALSE

\* api.ts lines 289-293 and HistoryTable.tsx lines 59-68: the update is
\* written, or localStorage.setItem throws (the quota is used up)
handleBulkGroupSaveEnd ==
    /\ NextIs("updateRecords")
    /\ LET p == pending[NextDue]
           updated == MapUpdates(ReadRecords(p), p.ids, p.updates)
       IN  \E ok \in BOOLEAN :
              /\ appEvent' = [what |-> "handleBulkGroupSave", ok |-> ok,
                              fetch |-> IF ok THEN FetchOutcome(isAuthenticated) ELSE "none",
                              sent |-> p.ids, selection |-> selectedIds,
                              dialog |-> isBulkGrouping]
              /\ call' = [Ended("updateRecords", IF ok THEN "none" ELSE "QuotaExceededError")
                             EXCEPT !.ids = p.ids, !.updates = p.updates]
              /\ IF ok
                 THEN /\ storedRecords' = updated
                      /\ BulkSaveDone
                      /\ fetchHistory(isAuthenticated, WithoutCall(NextDue))
                 ELSE /\ UNCHANGED storedRecords
                      /\ BulkSaveFailed
                      /\ pending' = WithoutCall(NextDue)
                      /\ UNCHANGED <<history, isLoadingHistory>>
    /\ UNCHANGED <<sessionVars, idVars, retired, createdBy, isAuthenticated>>

\* a call the page will never see the end of
ReloadCall ==
    [Issued("getHistory", NoId, <<>>, NoUpdates) EXCEPT !.op = "reload", !.due = clock]

\* App.tsx lines 55-57 and api.ts lines 179-183: the session is removed and
\* the page is told to reload
handleLogout ==
    /\ isAuthenticated
    /\ \A k \in 1..Len(pending) : pending[k].op # "reload"
    /\ logout
    /\ pending' = Append(pending, ReloadCall)
    /\ UNCHANGED <<selectedIds, isAuthenticated, history, isLoadingHistory, bulkVars, appEvent>>

\* api.ts line 182: the page is loaded again; its state and its timers are gone
Reload ==
    /\ NextIs("reload")
    /\ pending' = <<>>
    /\ isAuthenticated' = FALSE
    /\ history' = <<>>
    /\ isLoadingHistory' = TRUE
    /\ isBulkGrouping' = FALSE
    /\ bulkGroupInput' = <<>>
    /\ isSaving' = FALSE
    /\ selectedIds' = <<>>
    /\ appEvent' = NoEvent
    /\ UNCHANGED storeVars

\* time passes while a timer runs and none is due
AppTick ==
    /\ pending # <<>>
    /\ \A k \in 1..Len(pending) : pending[k].due > clock
    /\ clock' = clock + 1
    /\ UNCHANGED <<sessionVars, storedRecords, hasRandomUUID, uuidCount, ghostVars,
                   appVars, selectedIds>>

\* a browser that admin has used before, with or without an open session
AppInit ==
    /\ storedUsers = <<adminUser>>
    /\ \E open \in BOOLEAN :
          /\ storedToken = IF open THEN Item([uid |-> AdminId]) ELSE NoItem
          /\ storedCurrentUser = IF open THEN Item([id |-> AdminId, username |-> Str_admin])
                                 ELSE NoItem
    /\ hasRandomUUID = TRUE
    /\ uuidCount = 2
    /\ clock = GenerateDelay * 2
    /\ storedRecords = <<SavedRecord(2), SavedRecord(1)>>
    /\ call = NoCall
    /\ retired = {}
    /\ createdBy = <<[id |-> SavedRecord(1).id, by |-> AdminId],
                     [id |-> SavedRecord(2).id, by |-> AdminId]>>
    /\ GenIdle
    /\ UserIdle
    /\ ViewIdle
    /\ TableIdle
    /\ AppIdle

\* the generator, the pattern maker and the table's filters are not part of this
AppRest == UNCHANGED <<genVars, userVars, viewVars, locale, viewMode, download, lastClick>>

AppNext ==
    \/ SessionCheck /\ AppRest
    \/ AuthSubmit /\ AppRest
    \/ fetchHistoryEnd /\ AppRest
    \/ SelectHistoryRow /\ AppRest
    \/ OpenBulkDialog /\ AppRest
    \/ SetBulkGroupInput /\ AppRest
    \/ CancelBulkDialog /\ AppRest
    \/ handleBulkGroupSave /\ AppRest
    \/ handleBulkGroupSaveEnd /\ AppRest
    \/ handleLogout /\ AppRest
    \/ Reload /\ AppRest
    \/ AppTick /\ AppRest

\* a timer that is due fires, and the page reloads once told to
AppFairness ==
    /\ WF_vars(AppTick /\ AppRest)
    /\ WF_vars(fetchHistoryEnd /\ AppRest)
    /\ WF_vars(handleBulkGroupSaveEnd /\ AppRest)
    /\ WF_vars(Reload /\ AppRest)

SpecApp == AppInit /\ [][AppNext]_vars /\ AppFairness

(***************************************************************************)
(* The session calls alone, with every name and password of the form      *)
(***************************************************************************)
\* AuthPage.tsx lines 11-12 and 28-30: the form starts with admin / admin
\* and sends what is typed to login or to register
AuthInputs ==
    { [username |-> u, password |-> p] : u \in {Str_admin, Str_bob}, p \in {Str_admin, Str_pw} }

SessionNext ==
    \/ (\E cred \in AuthInputs : loginWith(cred))
           /\ UNCHANGED <<genVars, userVars, viewVars, tableVars, appVars>>
    \/ (\E cred \in AuthInputs : registerWith(cred))
           /\ UNCHANGED <<genVars, userVars, viewVars, tableVars, appVars>>
    \/ logout /\ UNCHANGED <<genVars, userVars, viewVars, tableVars, appVars>>

SpecSession == StoreInit /\ [][SessionNext]_vars

(***************************************************************************)
(* Claims about the generator                                              *)
(***************************************************************************)
NoToggles == ~config.useUppercase /\ ~config.useNumbers /\ ~config.useSymbols
AllToggles == config.useUppercase /\ config.useNumbers /\ config.useSymbols

\* C1: for a length L in [4,64] and any toggles, generateRandomPassword
\* returns a string of exactly L characters.
C1_LengthExact ==
    (pc = "password" /\ config.length \in MinLength..MaxLength)
        => (outcome.error = "none" /\ Len(outcome.value) = config.length)

C1_Witness ==
    /\ pc = "password"
    /\ config.length = MaxLength
    /\ AllToggles
    /\ Len(outcome.value) = MaxLength

\* the characters the toggles of the configuration allow
AllowedChars ==
    SeqToSet(lowercase)
    \cup (IF config.useUppercase THEN SeqToSet(uppercase) ELSE {})
    \cup (IF config.useNumbers THEN SeqToSet(numbers) ELSE {})
    \cup (IF config.useSymbols THEN SeqToSet(symbols) ELSE {})

\* C2: every character of a generated password is a lowercase letter or a
\* member of a class whose toggle is on; with no toggle on, all are lowercase.
C2_CharsFromCharset ==
    pc = "password" =>
        /\ SeqToSet(outcome.value) \subseteq AllowedChars
        /\ NoToggles => \A k \in 1..Len(outcome.value) :
                            \E j \in 1..26 : outcome.value[k] = lowercase[j]

C2_Witness ==
    /\ pc = "password"
    /\ NoToggles
    /\ config.length = MaxLength
    /\ "z" \in SeqToSet(outcome.value)
    /\ "a" \in SeqToSet(outcome.value)

\* the score when the penalty is only the else-branch of the short-length cap
ScoreCapOrPenalty ==
    LET b == BaseScore(config)
        s == IF config.length < 8 THEN Min(b, 20)
             ELSE IF NoToggles /\ config.length < 20 THEN b - 10
             ELSE b
    IN  ClampScore(s)

\* the score when the penalty follows the cap
ScoreCapThenPenalty ==
    LET b == BaseScore(config)
        c == IF config.length < 8 THEN Min(b, 20) ELSE b
        s == IF NoToggles /\ config.length < 20 THEN c - 10 ELSE c
    IN  ClampScore(s)

\* C3 as stated: the penalty of 10 is an alternative to the short-length cap,
\* so a length below 8 with no toggle on scores min(length * 4, 20).
C3_PenaltyIsAlternative ==
    (pc = "strength" /\ config.length \in MinLength..MaxLength) =>
        /\ outcome.score = ScoreCapOrPenalty
        /\ (config.length < 8 /\ NoToggles)
              => outcome.score = Min(config.length * 4, 20)

\* C3 amended: the penalty of 10 is applied after the short-length cap, whenever
\* no toggle is on and length < 20; a length below 8 with no toggle on scores
\* max(0, min(length * 4, 20) - 10).
C3_PenaltyFollowsCap ==
    pc = "strength" =>
        /\ outcome.score = ScoreCapThenPenalty
        /\ (config.length \in 0..7 /\ NoToggles)
              => outcome.score =
                    (IF Min(config.length * 4, 20) - 10 < 0 THEN 0
                     ELSE Min(config.length * 4, 20) - 10)

C3_Witness ==
    /\ pc = "strength"
    /\ config.length = 7
    /\ NoToggles
    /\ outcome.score = 10

\* C4: the score is in [0,100]; the label follows from the score alone with
\* boundary scores in the higher band; length 4 without toggles is Weak with
\* a score of at most 20; length 20 with all toggles is Very Strong.
C4_ScoreRangeAndLabel ==
    pc = "strength" =>
        /\ outcome.score \in 0..100
        /\ (outcome.label = "Weak") <=> (outcome.score < 40)
        /\ (outcome.label = "Moderate") <=> (outcome.score >= 40 /\ outcome.score < 70)
        /\ (outcome.label = "Strong") <=> (outcome.score >= 70 /\ outcome.score < 90)
        /\ (outcome.label = "Very Strong") <=> (outcome.score >= 90)
        /\ (config.length = 4 /\ NoToggles)
              => (outcome.score <= 20 /\ outcome.label = "Weak")
        /\ (config.length = 20 /\ AllToggles) => outcome.label = "Very Strong"

C4_Witness ==
    /\ pc = "strength"
    /\ outcome.score = 70
    /\ outcome.label = "Strong"

\* C5: generateRandomPassword raises no error for any integer length,
\* lengths of 0 and below included.
C5_NoErrorForAnyLength ==
    pc = "password" => outcome.error = "none"

(***************************************************************************)
(* Claims about generateUsernameFromPattern                                *)
(***************************************************************************)

\* a decimal numeral of an integer in [0,999] without zero padding
IsNumeral0To999(t) ==
    /\ Len(t) \in 1..3
    /\ \A k \in 1..Len(t) : IsDigit(t[k])
    /\ Len(t) > 1 => t[1] # "0"

\* C6: for an empty or absent pattern the result is an adjective of the list,
\* then a noun of the list, then an integer in [0,999] without zero padding,
\* and it contains none of the three placeholder texts.
C6_DefaultPatternExpanded ==
    (upc = "done" /\ ~Truthy(pattern)) =>
        /\ \E a \in 1..Len(ADJECTIVES), n \in 1..Len(NOUNS) :
              LET head == ADJECTIVES[a] \o NOUNS[n]
              IN  /\ MatchesAt(result, head, 1)
                  /\ IsNumeral0To999(SubSeq(result, Len(head) + 1, Len(result)))
        /\ ~Includes(result, AdjectiveToken)
        /\ ~Includes(result, NounToken)
        /\ ~Includes(result, NumberToken)

C6_Witness ==
    /\ upc = "done"
    /\ pattern = Some(<<>>)
    /\ result = <<"G","r","e","e","n","C","a","t","9","9","9">>

\* how many times the character c occurs in s
RECURSIVE CountOf(_, _)
CountOf(s, c) ==
    IF s = <<>> THEN 0 ELSE (IF s[1] = c THEN 1 ELSE 0) + CountOf(Tail(s), c)

HasWordPlaceholder(s) ==
    Includes(s, AdjectiveToken) \/ Includes(s, NounToken) \/ Includes(s, NumberToken)

\* after is before with one occurrence of token replaced by a text that
\* holds no wildcard character
ReplacedOneToken(before, after, token) ==
    \E at \in 1..Len(before) :
        /\ MatchesAt(before, token, at)
        /\ LET word == SubSeq(after, at, Len(after) - (Len(before) - at - Len(token) + 1))
           IN  /\ after = SubSeq(before, 1, at - 1) \o word
                            \o SubSeq(before, at + Len(token), Len(before))
               /\ CountOf(word, "#") = 0
               /\ CountOf(word, "?") = 0

\* C23: all {adjective}, {noun} and {number} placeholders are expanded before
\* any wildcard substitution, every occurrence is replaced, and the wildcard
\* pass changes only '#' and '?' characters that were literal in the pattern:
\* no inserted word or number holds a wildcard, and a wildcard step changes
\* no other character.
C23_WordsBeforeWildcards ==
    /\ [](upc \in {"hash", "question", "done"} => ~HasWordPlaceholder(result))
    /\ [][(upc = "adjective" /\ result' # result)
             => ReplacedOneToken(result, result', AdjectiveToken)]_vars
    /\ [][(upc = "noun" /\ result' # result)
             => ReplacedOneToken(result, result', NounToken)]_vars
    /\ [][(upc = "number" /\ result' # result)
             => ReplacedOneToken(result, result', NumberToken)]_vars
    /\ [][(upc \in {"hash", "question"} /\ result' # result)
             => /\ Len(result') = Len(result)
                /\ \A k \in 1..Len(result) :
                      result'[k] # result[k] => result[k] = (IF upc = "hash" THEN "#" ELSE "?")]_vars

\* a pattern with a repeated placeholder and wildcards came out as two
\* adjectives with the literal text between them and a letter at the end
C23_Witness ==
    /\ upc = "done"
    /\ pattern = Some(AdjectiveToken \o <<".">> \o AdjectiveToken \o <<"?">>)
    /\ result = <<"R","e","d",".","C","a","l","m","z">>

Str_user4 == <<"u","s","e","r","_","#","#","#","#">>

\* position by position: a digit for '#', a lower-case letter for '?', the
\* same character otherwise
WildcardsFilled(p, out) ==
    /\ Len(out) = Len(p)
    /\ \A k \in 1..Len(p) :
          IF p[k] = "#" THEN IsDigit(out[k])
          ELSE IF p[k] = "?" THEN \E j \in 1..26 : out[k] = lowercase[j]
          ELSE out[k] = p[k]

\* C24 as stated: for a pattern without word placeholders the result has the
\* same length, a digit for each '#', a lower-case letter for each '?' and
\* every other character unchanged; "user_####" gives 10 characters, user_
\* followed by four digits.
C24_WildcardsKeepLengthTen ==
    (upc = "done" /\ pattern.some /\ ~HasWordPlaceholder(pattern.str)) =>
        /\ WildcardsFilled(pattern.str, result)
        /\ pattern.str = Str_user4 =>
              /\ Len(result) = 10
              /\ SubSeq(result, 1, 5) = SubSeq(Str_user4, 1, 5)
              /\ \A k \in 6..Len(result) : IsDigit(result[k])

\* C24 amended: for a non-empty pattern without word placeholders the result
\* has the same length, a digit for each '#', a lower-case letter for each
\* '?' and every other character unchanged; "user_####" gives 9 characters,
\* user_ followed by four digits.
C24_WildcardsKeepLength ==
    (upc = "done" /\ Truthy(pattern) /\ ~HasWordPlaceholder(pattern.str)) =>
        /\ WildcardsFilled(pattern.str, result)
        /\ pattern.str = Str_user4 =>
              /\ Len(result) = 9
              /\ SubSeq(result, 1, 5) = SubSeq(Str_user4, 1, 5)
              /\ \A k \in 6..9 : IsDigit(result[k])

\* user_#### came out with differing digits
C24_Witness ==
    /\ upc = "done"
    /\ pattern = Some(Str_user4)
    /\ result = <<"u","s","e","r","_","0","9","0","7">>

(***************************************************************************)
(* Claims about the history view                                           *)
(***************************************************************************)
InView(view, r) == \E k \in 1..Len(view) : view[k] = r
PositionIn(view, r) == CHOOSE k \in 1..Len(view) : view[k] = r
RecordSet == SeqToSet(records)

\* a and b are the same character up to letter case
SameLetter(a, b) ==
    a = b \/ \E j \in 1..26 : {a, b} = {lowercase[j], uppercase[j]}

\* term occurs in field, compared without regard to case
OccursIgnoringCase(field, term) ==
    \E off \in 0..(Len(field) - Len(term)) :
        \A k \in 1..Len(term) : SameLetter(field[off + k], term[k])

SearchPredicate(r) ==
    \/ searchTerm = <<>>
    \/ OccursIgnoringCase(r.username, searchTerm)
    \/ OccursIgnoringCase(r.id, searchTerm)
    \/ (r.remark.some /\ OccursIgnoringCase(r.remark.str, searchTerm))
    \/ (r.group.some /\ OccursIgnoringCase(r.group.str, searchTerm))

GroupPredicate(r) == filterGroup = <<>> \/ r.group = Some(filterGroup)

\* the day number a date string names
DayRange == (-32)..1
DateTable == [d \in DayRange |-> DateString(d)]
DayOfDateString(str) == CHOOSE d \in DayRange : DateTable[d] = str

\* the date bounds applied to a day number
WithinDateBounds(day) ==
    /\ (filterDateStart # <<>>) => DayOfDateString(filterDateStart) <= day
    /\ (filterDateEnd # <<>>) => day <= DayOfDateString(filterDateEnd)

\* C7: the view holds exactly the records passing the search, the group and
\* the date test together; the group test is exact equality and an empty
\* group filter lets everything pass; filtering by "Work" shows Work records only.
C7_ViewIsConjunctionOfFilters ==
    LET view == processedRecords
    IN  /\ \A r \in RecordSet :
              InView(view, r) <=> (/\ SearchPredicate(r)
                                   /\ GroupPredicate(r)
                                   /\ WithinDateBounds(UtcDay(r.created_at)))
        /\ SeqToSet(view) \subseteq RecordSet
        /\ Len(view) = Cardinality(SeqToSet(view))
        /\ filterGroup = Str_Work =>
              \A k \in 1..Len(view) : view[k].group = Some(Str_Work)

C7_Witness ==
    /\ records = SubSeq(RecordPool, 1, 3)
    /\ filterGroup = Str_Work
    /\ searchTerm = <<>>
    /\ processedRecords = <<RecordPool[1]>>

\* C8: with no group and no date filter, a record is shown iff the search
\* term is empty or occurs, ignoring case, in its username, identifier,
\* remark or group; a record without remark and group is found through its
\* username or identifier only.
C8_SearchPredicate ==
    (filterGroup = <<>> /\ filterDateStart = <<>> /\ filterDateEnd = <<>>) =>
        LET view == processedRecords
        IN  \A r \in RecordSet :
                /\ InView(view, r) <=> SearchPredicate(r)
                /\ (/\ InView(view, r)
                    /\ searchTerm # <<>>
                    /\ ~r.remark.some
                    /\ ~r.group.some)
                      => (\/ OccursIgnoringCase(r.username, searchTerm)
                          \/ OccursIgnoringCase(r.id, searchTerm))

C8_Witness ==
    /\ filterGroup = <<>> /\ filterDateStart = <<>> /\ filterDateEnd = <<>>
    /\ searchTerm = <<"w","o","r","k">>
    /\ records = SubSeq(RecordPool, 1, 3)
    /\ Len(processedRecords) = 2

\* C9: the date filter keeps a record iff the calendar day of its creation
\* on the user's clock lies within the inclusive bounds; with both bounds set
\* to today's local date it shows exactly the records created today, local time.
C9_DateFilterUsesLocalDay ==
    (searchTerm = <<>> /\ filterGroup = <<>>) =>
        LET view == processedRecords
        IN  /\ \A r \in RecordSet :
                  InView(view, r) <=> WithinDateBounds(LocalDay(r.created_at))
            /\ (/\ filterDateStart = DateString(LocalDay(now))
                /\ filterDateEnd = DateString(LocalDay(now)))
                  => \A r \in RecordSet :
                        InView(view, r) <=> LocalDay(r.created_at) = LocalDay(now)

\* the sort key of a record, an absent text counting as empty
KeyOf(r) ==
    IF sortConfig.key = "created_at" THEN r.created_at
    ELSE IF sortConfig.key = "username" THEN r.username
    ELSE IF sortConfig.key = "group" THEN (IF r.group.some THEN r.group.str ELSE <<>>)
    ELSE (IF r.remark.some THEN r.remark.str ELSE <<>>)

Reverse(q) == [k \in 1..Len(q) |-> q[Len(q) + 1 - k]]

OppositeDirection == IF sortConfig.direction = "asc" THEN "desc" ELSE "asc"

\* C10: records with equal sort keys keep the order they have in the input,
\* ascending and descending; without two equal usernames the view sorted by
\* username in one direction is the reverse of the view sorted in the other.
C10_SortStable ==
    LET view == processedRecords
    IN  /\ \A i, j \in 1..Len(records) :
              (/\ i < j
               /\ InView(view, records[i])
               /\ InView(view, records[j])
               /\ KeyOf(records[i]) = KeyOf(records[j]))
                  => PositionIn(view, records[i]) < PositionIn(view, records[j])
        /\ (/\ sortConfig.key = "username"
            /\ \A i, j \in 1..Len(view) : i # j => view[i].username # view[j].username)
              => view = Reverse(ProcessRecords(records, searchTerm, filterGroup,
                                               filterDateStart, filterDateEnd,
                                               [key |-> "username",
                                                direction |-> OppositeDirection]))

C10_Witness ==
    /\ sortConfig = [key |-> "username", direction |-> "desc"]
    /\ processedRecords = <<RecordPool[2], RecordPool[1], RecordPool[3]>>

(***************************************************************************)
(* Claims about the grouped view, the selection and the export             *)
(***************************************************************************)
\* the label a record belongs under: its group, or Uncategorized without one
LabelOf(r) ==
    IF r.group.some /\ r.group.str # <<>> THEN r.group.str ELSE Uncategorized

\* where a label first occurs in the view
FirstOccurrence(view, label) ==
    CHOOSE k \in 1..Len(view) :
        /\ LabelOf(view[k]) = label
        /\ \A j \in 1..(k - 1) : LabelOf(view[j]) # label

\* C11: the grouped view partitions the filtered-and-sorted sequence by
\* group: every record is in exactly one group, a record without a group is
\* under "Uncategorized", a group lists its records in their sorted order, and
\* the groups come in the order in which their labels first occur in the
\* sorted sequence, whatever the labels are.
C11_GroupsInFirstOccurrenceOrder ==
    viewMode = "grouped" =>
        LET view == processedRecords
            memo == groupedRecords
            shown == GroupedView
        IN  /\ memo.error = "none"
            /\ \A k \in 1..Len(view) :
                  Cardinality({g \in 1..Len(shown) : InView(shown[g].records, view[k])}) = 1
            /\ \A g \in 1..Len(shown) :
                  /\ shown[g].records # <<>>
                  /\ shown[g].records =
                        SelectSeq(view, LAMBDA r : LabelOf(r) = shown[g].name)
            /\ \A g, h \in 1..Len(shown) :
                  g < h => FirstOccurrence(view, shown[g].name)
                             < FirstOccurrence(view, shown[h].name)


\* the ids of the records that pass the filters in force
VisibleIdSet == {r.id : r \in {x \in RecordSet : SearchPredicate(x) /\ GroupPredicate(x)}}

\* C12: toggleSelectAll acts on the visible records only: when every visible
\* id was selected it removes exactly the visible ids and keeps the selected
\* ids outside the view; otherwise it adds every visible id and keeps every
\* id selected before.
C12_SelectAllTouchesVisibleOnly ==
    lastClick.what = "toggleSelectAll" =>
        LET was == SeqToSet(lastClick.selected)
            is == SeqToSet(selectedIds)
        IN  IF VisibleIdSet \subseteq was
            THEN is = was \ VisibleIdSet
            ELSE is = was \cup VisibleIdSet

\* the box was unticked while an id outside the view was selected
C12_Witness ==
    /\ lastClick.what = "toggleSelectAll"
    /\ VisibleIdSet # {}
    /\ VisibleIdSet \subseteq SeqToSet(lastClick.selected)
    /\ SeqToSet(selectedIds) # {}
    /\ SeqToSet(selectedIds) \cap VisibleIdSet = {}


\* a field that has to be quoted
NeedsQuoting(str) == \E k \in 1..Len(str) : str[k] \in {",", "\"", "\n"}

\* str between double quotes, each double quote of str written twice
RECURSIVE QuotedBody(_)
QuotedBody(str) ==
    IF str = <<>> THEN <<>>
    ELSE QuotedBody(SubSeq(str, 1, Len(str) - 1))
         \o (IF str[Len(str)] = "\"" THEN <<"\"", "\"">> ELSE <<str[Len(str)]>>)

FieldText(str) ==
    IF NeedsQuoting(str) THEN <<"\"">> \o QuotedBody(str) \o <<"\"">> ELSE str

\* the four fields of a record's row
FieldsOf(r) ==
    << r.username,
       IF r.group.some THEN r.group.str ELSE <<>>,
       IF r.remark.some THEN r.remark.str ELSE <<>>,
       toLocaleString(r.created_at) >>

RowText(r) ==
    LET f == FieldsOf(r)
    IN  FieldText(f[1]) \o <<",">> \o FieldText(f[2]) \o <<",">>
        \o FieldText(f[3]) \o <<",">> \o FieldText(f[4])

HeaderText ==
    <<"U","s","e","r","n","a","m","e",",","G","r","o","u","p",",",
      "R","e","m","a","r","k",",","C","r","e","a","t","e","d"," ","A","t">>

\* the header line, then one line per row, each after a newline
RECURSIVE FileText(_)
FileText(rows) ==
    IF rows = <<>> THEN HeaderText
    ELSE FileText(SubSeq(rows, 1, Len(rows) - 1)) \o <<"\n">> \o RowText(rows[Len(rows)])

\* C13: the export is the header row followed by one row per record of the
\* filtered-and-sorted view, in the view's order; a field is put between
\* double quotes, its double quotes doubled, exactly when it holds a comma, a
\* double quote or a newline, and is written unchanged otherwise.
C13_CsvRowsAndQuoting ==
    lastClick.what = "handleExportCSV" =>
        /\ download.made
        /\ download.content = FileText(processedRecords)

\* a remark with a comma went out between quotes, after the header row
C13_Witness ==
    /\ lastClick.what = "handleExportCSV"
    /\ \E k \in 1..Len(processedRecords) :
          LET r == processedRecords[k]
          IN  /\ r.remark.some
              /\ "," \in SeqToSet(r.remark.str)
              /\ Includes(download.content,
                          <<",", "\"">> \o r.remark.str \o <<"\"", ",">>)
    /\ Len(processedRecords) = 2
    /\ SubSeq(download.content, 1, Len(HeaderText) + 1) = HeaderText \o <<"\n">>


(***************************************************************************)
(* Claims about the record store                                           *)
(***************************************************************************)
StoredSet == SeqToSet(storedRecords)

\* C14: generateAndSave without a current user fails with Unauthorized and
\* leaves the record store as it was.
C14_GenerateNeedsUser ==
    [][(call'.op = "generateAndSave" /\ ~storedCurrentUser.some)
          => (call'.error = "Unauthorized" /\ storedRecords' = storedRecords)]_vars

\* a logged-out caller was turned away from a store that holds records
C14_Witness ==
    /\ call.op = "generateAndSave"
    /\ call.error = "Unauthorized"
    /\ ~storedCurrentUser.some
    /\ storedRecords # <<>>

\* no two stored records share an id, and no stored record has the id of a
\* record that was removed
IdsUniqueAndFresh ==
    /\ \A i, j \in 1..Len(storedRecords) :
          i # j => storedRecords[i].id # storedRecords[j].id
    /\ \A k \in 1..Len(storedRecords) : storedRecords[k].id \notin retired

\* C15: after any sequence of operations no two records share an id and the
\* id of a deleted record is never given to a later record; a successful
\* generate adds exactly one record, owned by the current user, and leaves
\* every record that existed unchanged.
C15_IdsUniqueNeverReused ==
    /\ []IdsUniqueAndFresh
    /\ [][(call'.op = "generateAndSave" /\ call'.error = "none")
             => /\ Len(storedRecords') = Len(storedRecords) + 1
                /\ \A r \in StoredSet : InView(storedRecords', r)
                /\ \E r \in SeqToSet(storedRecords') :
                      /\ r \notin StoredSet
                      /\ r.id \notin IdsOf(storedRecords)
                      /\ storedCurrentUser.some
                      /\ r.user_id = storedCurrentUser.value.id]_vars

\* a record was generated into a store that held a record of another user
C15_Witness ==
    /\ call.op = "generateAndSave"
    /\ call.error = "none"
    /\ Len(storedRecords) >= 2
    /\ call.returned[1] = storedRecords[1]
    /\ storedRecords[2].user_id # storedRecords[1].user_id


\* C16: updateRecord(id, updates) gives the record with that id the fields
\* present in updates and changes nothing else; when no record has that id
\* it fails with NotFound and the store is unchanged.
C16_UpdateUnknownIdNotFound ==
    [][(call'.op = "updateRecord")
          => IF call'.id \in IdsOf(storedRecords)
             THEN /\ call'.error = "none"
                  /\ Len(storedRecords') = Len(storedRecords)
                  /\ \A k \in 1..Len(storedRecords) :
                        LET old == storedRecords[k]
                            new == storedRecords'[k]
                        IN  IF old.id = call'.id
                            THEN /\ new.group = IF call'.updates.group.some
                                                THEN call'.updates.group ELSE old.group
                                 /\ new.remark = IF call'.updates.remark.some
                                                 THEN call'.updates.remark ELSE old.remark
                                 /\ [new EXCEPT !.group = old.group, !.remark = old.remark] = old
                            ELSE new = old
             ELSE /\ call'.error = "NotFound"
                  /\ storedRecords' = storedRecords]_vars

\* the ids of a batch call
BatchIds(c) == IF c.op = "deleteRecord" THEN {c.id} ELSE SeqToSet(c.ids)

\* C17: updateRecords(ids, {group}) sets the group of every stored record
\* whose id is in ids, leaves every other record and every other field
\* unchanged, and raises no error for ids that match no record.
C17_BatchUpdateSkipsMissing ==
    [][(call'.op = "updateRecords")
          => /\ call'.error = "none"
             /\ Len(storedRecords') = Len(storedRecords)
             /\ \A k \in 1..Len(storedRecords) :
                   storedRecords'[k] =
                       IF storedRecords[k].id \in BatchIds(call')
                       THEN [storedRecords[k] EXCEPT !.group = call'.updates.group]
                       ELSE storedRecords[k]]_vars

\* a batch naming a stored record and an unknown id regrouped the one and
\* left another stored record in its group
C17_Witness ==
    /\ call.op = "updateRecords"
    /\ call.error = "none"
    /\ MissingId \in BatchIds(call)
    /\ \E k \in 1..Len(storedRecords) :
          storedRecords[k].id \in BatchIds(call) /\ storedRecords[k].group = Some(Str_Home)
    /\ \E k \in 1..Len(storedRecords) :
          storedRecords[k].id \notin BatchIds(call) /\ storedRecords[k].group # Some(Str_Home)

\* kept is what is left of recs once the records of the ids in gone are
\* taken out: the others, unchanged and in the order they had
IsRemainder(kept, recs, gone) ==
    \E pos \in [1..Len(kept) -> 1..Len(recs)] :
        /\ \A i, j \in 1..Len(kept) : i < j => pos[i] < pos[j]
        /\ \A i \in 1..Len(kept) : kept[i] = recs[pos[i]]
        /\ \A k \in 1..Len(recs) :
              (recs[k].id \notin gone) <=> (\E i \in 1..Len(kept) : pos[i] = k)

\* C18: deleteRecord and deleteRecords remove exactly the stored records
\* whose id matches, keep every other record unchanged and in the same
\* relative order, and raise no error for ids that match no record.
C18_DeleteRemovesExactlyMatching ==
    [][(call'.op \in {"deleteRecord", "deleteRecords"})
          => /\ call'.error = "none"
             /\ IsRemainder(storedRecords', storedRecords, BatchIds(call'))]_vars

\* a batch naming a stored record and an unknown id took the one out and
\* left another
C18_Witness ==
    /\ call.op = "deleteRecords"
    /\ call.error = "none"
    /\ MissingId \in BatchIds(call)
    /\ BatchIds(call) \cap retired # {}
    /\ storedRecords # <<>>

\* the records of a list that a user owns
OwnedBy(recs, uid) == {r \in SeqToSet(recs) : r.user_id = uid}
\* every owner that ever appears
Owners == {createdBy[k].by : k \in 1..Len(createdBy)}

\* C19: clearHistory removes every record owned by the current user and no
\* other record: what any other user owns is the same before and after.
C19_ClearRemovesOwnOnly ==
    [][(call'.op = "clearHistory" /\ storedCurrentUser.some)
          => LET me == storedCurrentUser.value.id
             IN  /\ OwnedBy(storedRecords', me) = {}
                 /\ \A uid \in Owners \ {me} :
                       OwnedBy(storedRecords', uid) = OwnedBy(storedRecords, uid)
                 /\ SeqToSet(storedRecords') \subseteq StoredSet]_vars

\* a user who had created records cleared them while another user's stayed
C19_Witness ==
    /\ call.op = "clearHistory"
    /\ storedCurrentUser.some
    /\ storedRecords # <<>>
    /\ \E k \in 1..Len(createdBy) :
          /\ createdBy[k].by = storedCurrentUser.value.id
          /\ createdBy[k].id \in retired

\* who created the record of an id
CreatorOf(id) == {createdBy[k].by : k \in {j \in 1..Len(createdBy) : createdBy[j].id = id}}

\* C20: getHistory returns exactly the stored records owned by the current
\* user: never a record another user created, and every record the user
\* created that has not been deleted.
C20_HistoryIsOwnRecords ==
    (call.op = "getHistory" /\ call.error = "none") =>
        /\ storedCurrentUser.some
        /\ LET me == storedCurrentUser.value.id
               returned == SeqToSet(call.returned)
           IN  /\ returned \subseteq StoredSet
               /\ \A r \in returned : CreatorOf(r.id) = {me}
               /\ \A r \in StoredSet : CreatorOf(r.id) = {me} => r \in returned
               /\ \A k \in 1..Len(createdBy) :
                     (createdBy[k].by = me /\ createdBy[k].id \notin retired)
                         => createdBy[k].id \in IdsOf(call.returned)

\* a user read a history that holds their record, edited by someone, while
\* the store also holds a record of another user
C20_Witness ==
    /\ call.op = "getHistory"
    /\ call.error = "none"
    /\ call.returned # <<>>
    /\ Len(storedRecords) > Len(call.returned)
    /\ \E k \in 1..Len(call.returned) : call.returned[k].group = Some(Str_Home)


\* C21: no update, batch update, delete or batch delete issued in one user's
\* session changes or removes a record owned by a different user, whatever
\* ids are passed.
C21_WritesTouchOwnRecordsOnly ==
    [][(/\ call'.op \in {"updateRecord", "updateRecords", "deleteRecord", "deleteRecords"}
        /\ storedCurrentUser.some)
          => \A uid \in Owners \ {storedCurrentUser.value.id} :
                OwnedBy(storedRecords', uid) = OwnedBy(storedRecords, uid)]_vars

\* the fields of a record that no operation may change
FixedFields(r) ==
    <<r.id, r.user_id, r.username, r.password_plain, r.created_at>>

\* C25: the identifier, owner, username, password and creation time of a
\* record are the same in every state from its creation until its deletion:
\* updates and batch updates change only remark and group.
C25_OnlyGroupAndRemarkChange ==
    [][\A k \in 1..Len(storedRecords), j \in 1..Len(storedRecords') :
          storedRecords'[j].id = storedRecords[k].id
              => FixedFields(storedRecords'[j]) = FixedFields(storedRecords[k])]_vars

\* a single update gave a record a new group and a new remark
C25_Witness ==
    /\ call.op = "updateRecord"
    /\ call.updates.remark.some
    /\ \E k \in 1..Len(storedRecords) :
          /\ storedRecords[k].id = call.id
          /\ storedRecords[k].group = call.updates.group
          /\ storedRecords[k].remark = call.updates.remark
          /\ storedRecords[k].username = <<"u","5">>

\* what the call p does to the records before when it runs alone
AppliedAlone(p, before, after) ==
    CASE p.op = "generateAndSave" ->
            /\ Len(after) = Len(before) + 1
            /\ SubSeq(after, 2, Len(after)) = before
            /\ after[1].user_id = OwnerId(p.user)
      [] p.op \in {"updateRecord", "updateRecords"} ->
            /\ Len(after) = Len(before)
            /\ \A k \in 1..Len(before) :
                  after[k] = IF before[k].id \in (IF p.op = "updateRecord"
                                                  THEN {p.id} ELSE SeqToSet(p.ids))
                             THEN [before[k] EXCEPT !.group = p.updates.group]
                             ELSE before[k]
      [] p.op \in {"deleteRecord", "deleteRecords"} ->
            IsRemainder(after, before, BatchIds(p))

\* C26: calls whose delays are pending together never lose each other's
\* writes: a call reads and rewrites the store in one step when its delay
\* ends, so each completion applies the call to the store as the earlier
\* completions left it, and issuing a call writes nothing.
C26_OverlappingCallsKeepWrites ==
    /\ [][Len(pending') < Len(pending)
             => AppliedAlone(pending[NextDue], storedRecords, storedRecords')]_vars
    /\ [][Len(pending') > Len(pending) => storedRecords' = storedRecords]_vars

\* a generate and an update of an older record were in flight together and
\* both took effect
C26_Witness ==
    /\ pending = <<>>
    /\ call.op = "generateAndSave"
    /\ clock <= GenerateDelay * 3
    /\ Len(storedRecords) = 3
    /\ storedRecords[1] = call.returned[1]
    /\ storedRecords[2].group = Some(Str_Home)

(***************************************************************************)
(* Claims about the session                                                *)
(***************************************************************************)
\* C22: the default account is always usable: in every reachable state of
\* the user store login("admin", "admin") succeeds.
C22_AdminLoginAlwaysWorks ==
    FindByCredentials(SeedAdmin(storedUsers), Str_admin, Str_admin) # 0

\* C27: the stored token is present iff the stored current user is present,
\* and a failed login or failed register leaves both unchanged.
C27_TokenIffCurrentUser ==
    /\ [](storedToken.some <=> storedCurrentUser.some)
    /\ [][(call'.op \in {"login", "register"} /\ call'.error # "none")
             => UNCHANGED <<storedToken, storedCurrentUser>>]_vars

\* a login was refused while another user's session was open
C27_Witness ==
    /\ call.op = "login"
    /\ call.error = "Invalid credentials"
    /\ storedToken.some
    /\ storedCurrentUser.some
    /\ storedCurrentUser.value.username = Str_bob

(***************************************************************************)
(* Claims about the selection                                              *)
(***************************************************************************)
\* C30: after any sequence of toggleSelectOne and toggleSelectAll
\* interleaved with filter changes the selection holds no id twice, and
\* toggleSelectOne(id) twice in a row restores the set of selected ids.
C30_SelectionHasNoDuplicates ==
    /\ \A i, j \in 1..Len(selectedIds) : selectedIds[i] = selectedIds[j] => i = j
    /\ \A id \in VisibleIdSet :
          /\ SeqToSet(ToggleOne(ToggleOne(selectedIds, id), id)) = SeqToSet(selectedIds)
          /\ SeqToSet(ToggleOne(selectedIds, id)) # SeqToSet(selectedIds)
          /\ \A i, j \in 1..Len(ToggleOne(ToggleOne(selectedIds, id), id)) :
                ToggleOne(ToggleOne(selectedIds, id), id)[i]
                  = ToggleOne(ToggleOne(selectedIds, id), id)[j] => i = j

\* two rows are selected, one of them hidden by the filter in force
C30_Witness ==
    /\ Len(selectedIds) = 2
    /\ searchTerm # <<>> \/ filterGroup # <<>>
    /\ SeqToSet(selectedIds) \cap VisibleIdSet # {}
    /\ SeqToSet(selectedIds) \ VisibleIdSet # {}
    /\ lastClick.what = "other"

(***************************************************************************)
(* Claims about the application                                            *)
(***************************************************************************)
\* the step in which the bulk save's await is over and its handler finishes
BulkSaveEnds ==
    /\ NextIs("updateRecords")
    /\ call'.op = "updateRecords"
    /\ appEvent'.what = "handleBulkGroupSave"
    /\ pending' # pending

\* a history request was put in flight by this step
FetchIssued ==
    /\ pending' # <<>>
    /\ pending'[Len(pending')].op = "getHistory"
    /\ pending'[Len(pending')].due = clock + Delay("getHistory")
    /\ isLoadingHistory'

\* C28: handleBulkGroupSave sends the group to every selected id; on
\* success it clears the selection, closes the bulk dialog and triggers a
\* history refresh; on failure the selection and the dialog are left as they
\* were and no refresh happens; in both cases the saving flag is false when
\* the handler finishes.
C28_BulkGroupSave ==
    /\ [][(~isSaving /\ isSaving')
             => /\ Len(pending') = Len(pending) + 1
                /\ pending'[Len(pending')].op = "updateRecords"
                /\ pending'[Len(pending')].ids = selectedIds
                /\ pending'[Len(pending')].updates.group = Some(bulkGroupInput)]_vars
    /\ [][(BulkSaveEnds /\ appEvent'.ok)
             => /\ selectedIds' = <<>>
                /\ ~isBulkGrouping'
                /\ appEvent'.fetch # "none"
                /\ appEvent'.fetch = "started" => FetchIssued
                /\ \A k \in 1..Len(storedRecords') :
                      (storedRecords'[k].id \in SeqToSet(appEvent'.sent)
                         /\ storedRecords'[k].id \in IdsOf(storedRecords))
                        => storedRecords'[k].group = pending[NextDue].updates.group]_vars
    /\ [][(BulkSaveEnds /\ ~appEvent'.ok)
             => /\ UNCHANGED <<selectedIds, isBulkGrouping, bulkGroupInput>>
                /\ UNCHANGED <<history, isLoadingHistory, storedRecords>>
                /\ pending' = WithoutCall(NextDue)]_vars
    /\ [][BulkSaveEnds => ~isSaving']_vars
    /\ [](isSaving <=> \E k \in 1..Len(pending) : pending[k].op = "updateRecords")

\* both selected records were given the group, the dialog is closed, the
\* selection is empty and the refresh is in flight
C28_Witness ==
    /\ appEvent.what = "handleBulkGroupSave"
    /\ appEvent.ok
    /\ Len(appEvent.sent) = 2
    /\ appEvent.dialog
    /\ appEvent.fetch = "started"
    /\ selectedIds = <<>>
    /\ ~isBulkGrouping
    /\ ~isSaving
    /\ isLoadingHistory
    /\ \A k \in 1..Len(storedRecords) : storedRecords[k].group = Some(Str_Home)

\* how many history requests are in flight among the calls q
HistoryRequests(q) == Cardinality({k \in 1..Len(q) : q[k].op = "getHistory"})

\* the step in which a history request comes back from the store
FetchEnds ==
    /\ NextIs("getHistory")
    /\ call'.op = "getHistory"
    /\ appEvent'.what = "fetchHistory"
    /\ pending' # pending

\* the step in which fetchHistory ran and api.getHistory threw
FetchFails ==
    /\ appEvent'.fetch = "failed"
    /\ pending' # pending

====
